---- MODULE Spec2Model ----
(***************************************************************************)
(* Model of the algorithmicWing airfoil core: the NACA 4/5-digit           *)
(* cross-section generator (nacaprofile.js), the span-morph mesh builder   *)
(* (utils.js, createSpanMorphGeometry) and the part of wing.js that        *)
(* selects the generator.                                                  *)
(*                                                                         *)
(* Numbers.  JavaScript numbers are modelled as decimal fixed-point        *)
(* values: the integer v stands for v / Unit.  Products and quotients are  *)
(* rounded to the nearest unit, symmetric about zero.  Math.cos, Math.sin, *)
(* Math.sqrt and Math.atan are computed in the same fixed-point system.    *)
(* A NACA designation is the sequence of its decimal digits.               *)
(***************************************************************************)
EXTENDS Integers, Sequences, FiniteSets, TLC

VARIABLES
    naca,        \* params.naca: the designation, a sequence of digits
    chord,       \* params.chord
    points,      \* params.points: sample count n
    depth,       \* params.depth
    scale,       \* params.scale
    coords,      \* the point list last returned by the generator
    genAlgo,     \* the generator that produced coords: "none", "naca4", "naca5"
    genEntry,    \* the table entry the 5-digit generator selected (its local entry)
    parsed,      \* the record last returned by parseNACA
    url,         \* the query string of the page (window.location.search)
    mode,        \* startMode: "normal" or "cinematic"
    cine,        \* the closure variables of animateFoil (cinematic mode)
    genCall,     \* the arguments of the generator call of buildAirfoilMesh
    meshCall,    \* params and arguments of the last createSpanMorphGeometry call
    inputs,      \* the values of the morph panel's five input elements
    morph,       \* the arguments of applySpanMorph
    geom,        \* the geometry it returned: positions, indices, and its locals
    utilsBuild,  \* which utils.js is loaded: "frontend" or "part_004"
    coordsFunc,  \* the generator handed to addSpanMorphUI at construction
    extrudeAlgo, \* the generator buildAirfoilMesh selected for the current foil
    meshAlgo,    \* the generator createSpanMorphGeometry used for the current mesh
    earlier,     \* an earlier generator call kept for comparison: arguments and result
    scene,       \* the meshes of the scene, their geometry objects and the dispose calls
    rec,         \* the recording loop: frameCounter, duration, fps, the MediaRecorder
    deb          \* the debounce timers of the two panels and the events they follow

vars == <<naca, chord, points, depth, scale, coords, genAlgo, genEntry, parsed, url, mode,
          cine, genCall, meshCall, inputs, morph, geom, utilsBuild, coordsFunc, extrudeAlgo,
          meshAlgo, earlier, scene, rec, deb>>

genVars == <<coords, genAlgo, genEntry, parsed>>
pageVars == <<url, mode, cine, genCall, meshCall>>
paramVars == <<naca, chord, points, depth, scale>>
uiVars == <<utilsBuild, coordsFunc, extrudeAlgo, meshAlgo>>
auxVars == <<earlier, scene, rec, deb>>

-----------------------------------------------------------------------------
(* Bounds of the model *)

\* the longest designation text handed to parseNACA
MaxTextLen == 4

\* largest sample count n handed to the generator
MaxPoints == 4

\* largest slice count handed to the mesh builder
MaxSlices == 4

-----------------------------------------------------------------------------
(* Fixed-point arithmetic *)

Unit == 10 * 1000

Abs(a) == IF a < 0 THEN -a ELSE a

Sgn(a) == IF a < 0 THEN -1 ELSE 1

\* n / d rounded to the nearest integer, halves away from zero
RoundDiv(n, d) == Sgn(n) * Sgn(d) * ((Abs(n) + (Abs(d) \div 2)) \div Abs(d))

Mul(a, b) == RoundDiv(a * b, Unit)

Div(a, b) == RoundDiv(a * Unit, b)

Max(a, b) == IF a > b THEN a ELSE b

Min(a, b) == IF a < b THEN a ELSE b

RECURSIVE Pow(_, _)
Pow(a, k) == IF k = 0 THEN Unit ELSE Mul(Pow(a, k - 1), a)

RECURSIVE ISqrtIter(_, _, _)
ISqrtIter(n, lo, hi) ==
    IF lo >= hi THEN lo
    ELSE LET mid == (lo + hi + 1) \div 2
         IN  IF mid * mid <= n THEN ISqrtIter(n, mid, hi)
             ELSE ISqrtIter(n, lo, mid - 1)

\* Math.sqrt of a non-negative value
Sqrt(a) ==
    LET n == a * Unit
        f == ISqrtIter(n, 0, 46340)
    IN  IF n - f * f > f THEN f + 1 ELSE f

PI == 31416

\* cosine of an angle in [0, PI/2], by its series
CosSeries(b) ==
    LET b2 == Mul(b, b)
        t1 == RoundDiv(b2, 2)
        t2 == RoundDiv(Mul(t1, b2), 12)
        t3 == RoundDiv(Mul(t2, b2), 30)
        t4 == RoundDiv(Mul(t3, b2), 56)
        t5 == RoundDiv(Mul(t4, b2), 90)
    IN  Unit - t1 + t2 - t3 + t4 - t5

\* sine of an angle in [0, PI/2], by its series
SinSeries(b) ==
    LET b2 == Mul(b, b)
        t1 == RoundDiv(Mul(b, b2), 6)
        t2 == RoundDiv(Mul(t1, b2), 20)
        t3 == RoundDiv(Mul(t2, b2), 42)
        t4 == RoundDiv(Mul(t3, b2), 72)
    IN  b - t1 + t2 - t3 + t4

\* Math.cos for an angle in [0, PI]
Cos(b) == IF 2 * b > PI THEN -CosSeries(PI - b) ELSE CosSeries(b)

\* Math.tan for an angle in (-PI/2, PI/2)
Tan(a) == Sgn(a) * Div(SinSeries(Abs(a)), CosSeries(Abs(a)))

\* Math.sin(Math.atan(d)) and Math.cos(Math.atan(d))
SinAtan(d) == Div(d, Sqrt(Unit + Mul(d, d)))

CosAtan(d) == Div(Unit, Sqrt(Unit + Mul(d, d)))

-----------------------------------------------------------------------------
(* Designations *)

Digits == 0 .. 9

RECURSIVE Zeros(_)
Zeros(k) == IF k <= 0 THEN <<>> ELSE <<0>> \o Zeros(k - 1)

\* String.prototype.padStart(len, '0')
PadStart(s, len) == Zeros(len - Len(s)) \o s

\* parseInt of the two-character slice s[i..i+1]
TwoDigits(s, i) == 10 * s[i] + s[i + 1]

-----------------------------------------------------------------------------
(* nacaprofile.js: the cross-section generator *)

\* a value that is not a number is <<>>, the number v is <<v>>
NaN == <<>>

\* the characters of a text: 0 .. 9 are the digits, 32 the space, 43 and 45 the
\* signs, every other value a character that is none of these
RECURSIVE DigitPrefix(_)
DigitPrefix(chars) ==
    IF chars = <<>> \/ chars[1] \notin Digits THEN <<>>
    ELSE <<chars[1]>> \o DigitPrefix(Tail(chars))

RECURSIVE SkipSpaces(_)
SkipSpaces(chars) ==
    IF chars # <<>> /\ chars[1] = 32 THEN SkipSpaces(Tail(chars)) ELSE chars

RECURSIVE DigitsToInt(_)
DigitsToInt(ds) ==
    IF ds = <<>> THEN 0
    ELSE 10 * DigitsToInt(SubSeq(ds, 1, Len(ds) - 1)) + ds[Len(ds)]

\* parseInt(text, 10): leading spaces, an optional sign, then the longest run of
\* digits; NaN when there is no digit
ParseInt(chars) ==
    LET body == SkipSpaces(chars)
        signed == body # <<>> /\ body[1] \in {43, 45}
        ds == DigitPrefix(IF signed THEN Tail(body) ELSE body)
    IN  IF ds = <<>> THEN NaN
        ELSE IF signed /\ body[1] = 45 THEN <<-DigitsToInt(ds)>>
        ELSE <<DigitsToInt(ds)>>

\* value / divisor in the model's resolution; NaN stays NaN
Ratio(value, divisor) ==
    IF value = NaN THEN NaN ELSE <<RoundDiv(value[1] * Unit, divisor)>>

\* parseNACA: max camber m, camber position p, thickness t
parseNACA(code) ==
    LET s == PadStart(code, 4)
    IN  [m |-> Ratio(ParseInt(<<s[1]>>), 100),
         p |-> Ratio(ParseInt(<<s[2]>>), 10),
         t |-> Ratio(ParseInt(SubSeq(s, 3, 4)), 100)]

\* the fields of parseNACA as the arithmetic of the generator uses them
Numbers(f) == [m |-> f.m[1], p |-> f.p[1], t |-> f.t[1]]

\* cosine spacing: the chordwise coordinate x of sample i
SampleX(c, n, i) ==
    LET beta == Mul(Div(i * Unit, n * Unit), PI)
    IN  Mul(Div(Unit - Cos(beta), 2 * Unit), c)

\* Thickness with a blunt leading edge: the root term does not vanish at xf = 0
ThicknessBlunt(t, c, xf) ==
    Mul(Div(Mul(t, c), 2000),
        Mul(2969, Sqrt(xf + 100)) - Mul(1260, xf) - Mul(3516, Pow(xf, 2))
          + Mul(2843, Pow(xf, 3)) - Mul(1015, Pow(xf, 4)))

\* the thickness half-width yt at chord fraction xf
Thickness(t, c, xf) ==
    Mul(Div(Mul(t, c), 2000),
        Mul(2969, Sqrt(xf)) - Mul(1260, xf) - Mul(3516, Pow(xf, 2))
          + Mul(2843, Pow(xf, 3)) - Mul(1015, Pow(xf, 4)))

\* Camber4 without the test p === 0
Camber4NoZeroTest(m, p, c, xf) ==
    IF xf < p
    THEN [yc  |-> Mul(Mul(Div(m, Mul(p, p)),
                          Mul(Mul(2 * Unit, p), xf) - Pow(xf, 2)), c),
          dyc |-> Mul(Div(2 * m, Mul(p, p)), p - xf)]
    ELSE [yc  |-> Mul(Mul(Div(m, Pow(Unit - p, 2)),
                          Unit - 2 * p + Mul(Mul(2 * Unit, p), xf) - Pow(xf, 2)), c),
          dyc |-> Mul(Div(2 * m, Pow(Unit - p, 2)), p - xf)]

\* the forward-of-peak segment of the 4-digit camber line (x / chord < p)
Camber4Fore(m, p, c, xf) ==
    [yc  |-> Mul(Mul(Div(m, Mul(p, p)),
                     Mul(Mul(2 * Unit, p), xf) - Pow(xf, 2)), c),
     dyc |-> Mul(Div(2 * m, Mul(p, p)), p - xf)]

\* Camber4Aft dividing by p * p as the forward segment does
Camber4AftForeDivisor(m, p, c, xf) ==
    [yc  |-> Mul(Mul(Div(m, Mul(p, p)),
                     Unit - 2 * p + Mul(Mul(2 * Unit, p), xf) - Pow(xf, 2)), c),
     dyc |-> Mul(Div(2 * m, Mul(p, p)), p - xf)]

\* the aft-of-peak segment of the 4-digit camber line (x / chord >= p)
Camber4Aft(m, p, c, xf) ==
    [yc  |-> Mul(Mul(Div(m, Pow(Unit - p, 2)),
                     Unit - 2 * p + Mul(Mul(2 * Unit, p), xf) - Pow(xf, 2)), c),
     dyc |-> Mul(Div(2 * m, Pow(Unit - p, 2)), p - xf)]

\* the 4-digit camber line yc and its slope at chord fraction xf
Camber4(m, p, c, xf) ==
    IF p = 0 THEN [yc |-> 0, dyc |-> 0]
    ELSE IF xf < p THEN Camber4Fore(m, p, c, xf)
    ELSE Camber4Aft(m, p, c, xf)

\* the upper and the lower surface point of one sample
SurfacePoints(x, yt, yc, dyc) ==
    [upper |-> [x |-> x - Mul(yt, SinAtan(dyc)), y |-> yc + Mul(yt, CosAtan(dyc))],
     lower |-> [x |-> x + Mul(yt, SinAtan(dyc)), y |-> yc - Mul(yt, CosAtan(dyc))]]

\* one pass of the sampling loop of naca4Coordinates
Sample4(code, c, n, i) ==
    LET f  == Numbers(parseNACA(code))
        x  == SampleX(c, n, i)
        xf == Div(x, c)
        cm == Camber4(f.m, f.p, c, xf)
    IN  SurfacePoints(x, Thickness(f.t, c, xf), cm.yc, cm.dyc)

\* JoinSurfaces with the lower surface pushed in its own order
JoinSurfacesForward(ptsUpper, ptsLower) == ptsUpper \o ptsLower

\* coords: ptsUpper in order, then ptsLower from its last element to its first
JoinSurfaces(ptsUpper, ptsLower) ==
    ptsUpper \o [k \in 1 .. Len(ptsLower) |-> ptsLower[Len(ptsLower) - k + 1]]

\* shifted: every x moved by -chord/2
ShiftToCenter(pts, c) ==
    [k \in 1 .. Len(pts) |-> [x |-> pts[k].x - RoundDiv(c, 2), y |-> pts[k].y]]

naca4Coordinates(code, c, n) ==
    LET smp == [i \in 1 .. n + 1 |-> Sample4(code, c, n, i - 1)]
        ptsUpper == [i \in 1 .. n + 1 |-> smp[i].upper]
        ptsLower == [i \in 1 .. n + 1 |-> smp[i].lower]
    IN  ShiftToCenter(JoinSurfaces(ptsUpper, ptsLower), c)

\* the tables of naca5Coordinates, keyed by P * 5
StandardTable ==
    (5  :> [r |-> 1000, k1 |-> 580,  k2k1 |-> 0]) @@
    (10 :> [r |-> 2000, k1 |-> 1260, k2k1 |-> 0]) @@
    (15 :> [r |-> 3000, k1 |-> 2025, k2k1 |-> 0]) @@
    (20 :> [r |-> 4000, k1 |-> 2900, k2k1 |-> 0]) @@
    (25 :> [r |-> 5000, k1 |-> 3910, k2k1 |-> 0])

ReflexTable ==
    (10 :> [r |-> 2000, k1 |-> 1300, k2k1 |-> 8]) @@
    (15 :> [r |-> 3000, k1 |-> 2170, k2k1 |-> 68]) @@
    (20 :> [r |-> 4000, k1 |-> 3180, k2k1 |-> 303]) @@
    (25 :> [r |-> 5000, k1 |-> 4410, k2k1 |-> 1355])

\* TableLookup falling back to the entry of key 10, which both tables hold
TableLookupTen(table, key) ==
    IF key \in DOMAIN table THEN table[key] ELSE table[10]

\* table[key] || table['15']
TableLookup(table, key) ==
    IF key \in DOMAIN table THEN table[key] ELSE table[15]

\* the digits L, P, Q and the thickness of a 5-digit code
parseNACA5(code) ==
    LET s == PadStart(code, 5)
    IN  [L |-> s[1], P |-> s[2], Q |-> s[3],
         t |-> RoundDiv(TwoDigits(s, 4) * Unit, 100)]

\* TableEntry falling back to the nearest tabulated key
TableEntryNearest(code) ==
    LET f == parseNACA5(code)
        key == f.P * 5
        lo == IF f.Q = 1 THEN 10 ELSE 5
        near == Max(lo, Min(25, key))
    IN  IF f.Q = 1 THEN ReflexTable[near] ELSE StandardTable[near]

\* choose table entry
TableEntry(code) ==
    LET f == parseNACA5(code)
        key == f.P * 5
    IN  IF f.Q = 1 THEN TableLookup(ReflexTable, key)
        ELSE TableLookup(StandardTable, key)

\* yc_and_dyc: the 5-digit camber line and its slope at chord fraction x
Camber5(r, k1, k2, x) ==
    IF x < r
    THEN [yc  |-> Mul(Div(k1, 6 * Unit),
                      Pow(x, 3) - Mul(Mul(3 * Unit, r), Pow(x, 2))
                        + Mul(Mul(Pow(r, 2), 3 * Unit - r), x))
                  + (IF k2 # 0 THEN Mul(Div(k2, 6 * Unit), Pow(Unit - x, 3)) ELSE 0),
          dyc |-> Mul(Div(k1, 6 * Unit),
                      Mul(3 * Unit, Pow(x, 2)) - Mul(Mul(6 * Unit, r), x)
                        + Mul(Pow(r, 2), 3 * Unit - r))
                  - (IF k2 # 0 THEN Mul(Div(k2, 2 * Unit), Pow(Unit - x, 2)) ELSE 0)]
    ELSE [yc  |-> Mul(Mul(Div(k1, 6 * Unit), Pow(r, 3)), Unit - x)
                  + (IF k2 # 0 THEN Mul(Div(k2, 6 * Unit), Pow(Unit - x, 3)) ELSE 0),
          dyc |-> -Mul(Div(k1, 6 * Unit), Pow(r, 3))
                  - (IF k2 # 0 THEN Mul(Div(k2, 2 * Unit), Pow(Unit - x, 2)) ELSE 0)]

\* one pass of the sampling loop of naca5Coordinates
Sample5(code, c, n, i) ==
    LET f     == parseNACA5(code)
        Cl    == RoundDiv(f.L * 3 * Unit, 20)
        scl   == Div(Cl, 3000)
        entry == TableEntry(code)
        k1    == Mul(entry.k1, Max(0, scl))
        k2    == IF f.Q = 1 /\ entry.k2k1 # 0 THEN Mul(k1, entry.k2k1) ELSE 0
        x     == SampleX(c, n, i)
        xf    == Div(x, c)
        cm    == Camber5(entry.r, k1, k2, xf)
    IN  SurfacePoints(x, Thickness(f.t, c, xf), Mul(cm.yc, c), cm.dyc)

naca5Coordinates(code, c, n) ==
    LET smp == [i \in 1 .. n + 1 |-> Sample5(code, c, n, i - 1)]
        ptsUpper == [i \in 1 .. n + 1 |-> smp[i].upper]
        ptsLower == [i \in 1 .. n + 1 |-> smp[i].lower]
    IN  ShiftToCenter(JoinSurfaces(ptsUpper, ptsLower), c)

\* String(params.naca).replace(/\D/g, '').length === 5
Use5(code) == Len(code) = 5

\* the generator selected by the designation's digit count
SelectGenerator(code) == IF Use5(code) THEN "naca5" ELSE "naca4"

\* the call of the generator named alg
CallGenerator(alg, code, c, n) ==
    IF alg = "naca5" THEN naca5Coordinates(code, c, n)
    ELSE naca4Coordinates(code, c, n)

-----------------------------------------------------------------------------
(* utils.js: createSpanMorphGeometry *)

\* the tolerance 1e-9 of the closing-point test, in the model's resolution
Tol == 1

\* Dedup leaving the closing point in place
DedupNone(shape) == shape

\* drop the last point when it repeats the first one
Dedup(shape) ==
    IF Len(shape) > 1
       /\ Abs(shape[1].x - shape[Len(shape)].x) < Tol
       /\ Abs(shape[1].y - shape[Len(shape)].y) < Tol
    THEN SubSeq(shape, 1, Len(shape) - 1)
    ELSE shape

\* Math.max(0, Math.min(1, v))
Clamp01(v) == Max(0, Min(Unit, v))

\* StartZ at the root whatever startPercent is
StartZAtRoot(span, startPercent) == -Div(span, 2 * Unit)

\* startZ: the span position where the morph begins
StartZ(span, startPercent) ==
    -Div(span, 2 * Unit) + Mul(Clamp01(startPercent), span)

\* MorphT without the onset test z <= startZ
MorphTNoOnset(z, startZ, denom) ==
    IF denom <= 0 THEN Unit
    ELSE Max(0, Min(Unit, Div(z - startZ, denom)))

\* the morph progress t of the station at z
MorphT(z, startZ, denom) ==
    IF z <= startZ THEN 0
    ELSE IF denom <= 0 THEN Unit
    ELSE Max(0, Min(Unit, Div(z - startZ, denom)))

\* Station with localScale = 1 + thicknessFactor * t
StationScaleByFactor(s, slices, span, startPercent, thicknessFactor, maxShiftAbs, dihedralTan) ==
    LET half   == Div(span, 2 * Unit)
        startZ == StartZ(span, startPercent)
        denom  == half - startZ
        alpha  == IF slices = 1 THEN 0 ELSE Div(s * Unit, (slices - 1) * Unit)
        z      == -half + Mul(alpha, span)
        t      == MorphT(z, startZ, denom)
    IN  [z |-> z, t |-> t,
         localScale |-> Unit + Mul(thicknessFactor, t),
         shift |-> Mul(t, maxShiftAbs),
         dihedralOffset |-> Mul(Mul(t, dihedralTan), z - startZ)]

\* the locals of pass s of the station loop
Station(s, slices, span, startPercent, thicknessFactor, maxShiftAbs, dihedralTan) ==
    LET half   == Div(span, 2 * Unit)
        startZ == StartZ(span, startPercent)
        denom  == half - startZ
        alpha  == IF slices = 1 THEN 0 ELSE Div(s * Unit, (slices - 1) * Unit)
        z      == -half + Mul(alpha, span)
        t      == MorphT(z, startZ, denom)
    IN  [z |-> z, t |-> t,
         localScale |-> Unit + Mul(thicknessFactor - Unit, t),
         shift |-> Mul(t, maxShiftAbs),
         dihedralOffset |-> Mul(Mul(t, dihedralTan), z - startZ)]

\* StationVertex with the local scale applied to x only
StationVertexScaleX(p, st, scl) ==
    <<Mul(Mul(p.x, scl), st.localScale) + st.shift,
      Mul(p.y, scl) + st.dihedralOffset,
      st.z>>

\* the three floats of cross-section point p at a station
StationVertex(p, st, scl) ==
    <<Mul(Mul(p.x, scl), st.localScale) + st.shift,
      Mul(Mul(p.y, scl), st.localScale) + st.dihedralOffset,
      st.z>>

RECURSIVE StationFloats(_, _, _, _)
StationFloats(shape, st, scl, j) ==
    IF j > Len(shape) THEN <<>>
    ELSE StationVertex(shape[j], st, scl) \o StationFloats(shape, st, scl, j + 1)

RECURSIVE AllStationFloats(_, _, _, _)
AllStationFloats(shape, stations, scl, s) ==
    IF s > Len(stations) THEN <<>>
    ELSE StationFloats(shape, stations[s], scl, 1)
           \o AllStationFloats(shape, stations, scl, s + 1)

\* VertCount without the two apex vertices
VertCountNoApex(slices, N) == slices * N

\* the vertex count the position buffer is allocated for
VertCount(slices, N) == slices * N + 2

\* new Float32Array(len) written from its start: writes past the end are dropped
\* and the elements never written stay 0
Float32Buffer(len, writes) ==
    [k \in 1 .. len |-> IF k <= Len(writes) THEN writes[k] ELSE 0]

\* SideQuad that does not wrap the last edge back to point 0
SideQuadNoWrap(s, j, N) ==
    LET base == s * N
        next == (s + 1) * N
        j2   == Min(j + 1, N - 1)
    IN  <<base + j, next + j, next + j2, base + j, next + j2, base + j2>>

\* the two side-wall triangles of cross-section edge (j, j+1 mod N) between
\* station s and station s + 1
SideQuad(s, j, N) ==
    LET base == s * N
        next == (s + 1) * N
        j2   == (j + 1) % N
    IN  <<base + j, next + j, next + j2, base + j, next + j2, base + j2>>

RECURSIVE SideIndices(_, _, _, _)
SideIndices(s, j, slices, N) ==
    IF s >= slices - 1 THEN <<>>
    ELSE IF j >= N THEN SideIndices(s + 1, 0, slices, N)
    ELSE SideQuad(s, j, N) \o SideIndices(s, j + 1, slices, N)

\* one triangle of the root cap fan
RootCapTriangle(rootCenterIndex, j, N) == <<rootCenterIndex, (j + 1) % N, j>>

\* one triangle of the tip cap fan
TipCapTriangle(tipCenterIndex, baseTip, j, N) ==
    <<tipCenterIndex, baseTip + j, baseTip + ((j + 1) % N)>>

RECURSIVE RootCapIndices(_, _, _)
RootCapIndices(rootCenterIndex, j, N) ==
    IF j >= N THEN <<>>
    ELSE RootCapTriangle(rootCenterIndex, j, N) \o RootCapIndices(rootCenterIndex, j + 1, N)

RECURSIVE TipCapIndices(_, _, _, _)
TipCapIndices(tipCenterIndex, baseTip, j, N) ==
    IF j >= N THEN <<>>
    ELSE TipCapTriangle(tipCenterIndex, baseTip, j, N)
           \o TipCapIndices(tipCenterIndex, baseTip, j + 1, N)

\* the position of the root-center apex
RootCenter(half) == <<0, 0, -half>>

\* TipCenter without the dihedral offset
TipCenterFlat(maxShiftAbs, dihedralTan, half, startZ) == <<maxShiftAbs, 0, half>>

\* TipCenter at the section origin of a station that is not morphed
TipCenterUnmorphed(maxShiftAbs, dihedralTan, half, startZ) == <<0, 0, half>>

\* the position of the tip-center apex
TipCenter(maxShiftAbs, dihedralTan, half, startZ) ==
    <<maxShiftAbs, Mul(dihedralTan, half - startZ), half>>

\* createSpanMorphGeometry on the generator output shape; p holds params
SpanMorphGeometry(shape, p, startPercent, thicknessFactor, slices, shiftAmount, dihedralAngle) ==
    LET shape2D == Dedup(shape)
        N       == Len(shape2D)
        span    == Mul(p.depth, p.scale)
        half    == Div(span, 2 * Unit)
        startZ  == StartZ(span, startPercent)
        maxShiftAbs == Mul(Mul(shiftAmount, p.chord), p.scale)
        dihedralTan == Tan(dihedralAngle)
        stations == [s \in 1 .. slices |->
                       Station(s - 1, slices, span, startPercent, thicknessFactor,
                               maxShiftAbs, dihedralTan)]
        rootCenterIndex == slices * N
        tipCenterIndex  == slices * N + 1
        writes == AllStationFloats(shape2D, stations, p.scale, 1)
                    \o RootCenter(half)
                    \o TipCenter(maxShiftAbs, dihedralTan, half, startZ)
    IN  [shape2D |-> shape2D, N |-> N, slices |-> slices, span |-> span,
         half |-> half, startZ |-> startZ, maxShiftAbs |-> maxShiftAbs,
         dihedralTan |-> dihedralTan, stations |-> stations,
         rootCenterIndex |-> rootCenterIndex, tipCenterIndex |-> tipCenterIndex,
         positions |-> Float32Buffer(VertCount(slices, N) * 3, writes),
         indices |-> SideIndices(0, 0, slices, N)
                       \o RootCapIndices(rootCenterIndex, 0, N)
                       \o TipCapIndices(tipCenterIndex, (slices - 1) * N, 0, N)]

\* Math.floor of a non-negative value, as an integer
Floor(v) == v \div Unit

\* SliceArg rounding to the nearest count instead of flooring
SliceArgRounded(slices) == Max(2, RoundDiv(slices, Unit))

\* the slice count applySpanMorph hands to createSpanMorphGeometry
SliceArg(slices) == Max(2, Floor(slices))

-----------------------------------------------------------------------------
(* The generator as a pure function: SpecGen draws the arguments and calls it *)

\* values of variables that hold nothing yet
NoEntry == [r |-> 0, k1 |-> 0, k2k1 |-> 0]
NoMorph == [startPercent |-> 0, thicknessFactor |-> 0, slices |-> 0,
            shiftAmount |-> 0, dihedralAngle |-> 0]
NoGeom == [slices |-> 0]
NoParse == [unset |-> TRUE]
NoUrl == <<>>
NoCine == [startPercent |-> 0]
NoCall == [points |-> 0]
NoEarlier == [alg |-> "none"]
NoScene == [allocated |-> 0]
NoRec == [frameCounter |-> -1]
NoDeb == [events |-> 0]

\* the state of what a specification does not exercise
NoAux ==
    /\ earlier = NoEarlier
    /\ scene = NoScene
    /\ rec = NoRec
    /\ deb = NoDeb

\* the specifications of the pure functions have no page around them
NoPage ==
    /\ parsed = NoParse
    /\ url = NoUrl
    /\ mode = "none"
    /\ cine = NoCine
    /\ genCall = NoCall
    /\ meshCall = NoCall

NoInputs == [start |-> <<>>, factor |-> <<>>, slices |-> <<>>, shift |-> <<>>,
             dihedral |-> <<>>]

\* params of wing.js as first written: depth 3, scale 3.0
DefaultDepth == 3 * Unit
DefaultScale == 3 * Unit

Codes4 ==
    {<<m, p>> \o tt : m \in {0, 2, 9}, p \in {0, 1, 4, 9},
                      tt \in {<<0, 0>>, <<1, 2>>, <<9, 9>>}}

Codes5 ==
    {<<L, P, Q>> \o tt : L \in {0, 2, 9}, P \in Digits, Q \in {0, 1, 2},
                         tt \in {<<0, 0>>, <<1, 2>>}}

Chords == {Unit \div 2, Unit, 2 * Unit}

InitGen ==
    /\ naca \in Codes4 \cup Codes5
    /\ chord \in Chords
    /\ points \in 1 .. MaxPoints
    /\ depth = DefaultDepth
    /\ scale = DefaultScale
    /\ coords = <<>>
    /\ genAlgo = "none"
    /\ genEntry = NoEntry
    /\ morph = NoMorph
    /\ geom = NoGeom
    /\ inputs = NoInputs
    /\ NoPage
    /\ NoAux
    /\ utilsBuild = "part_004"
    /\ coordsFunc = SelectGenerator(naca)
    /\ extrudeAlgo = "none"
    /\ meshAlgo = "none"

\* coordsFunc(params.naca, params.chord, params.points), as buildAirfoilMesh calls it
Generate ==
    /\ genAlgo = "none"
    /\ genAlgo' = SelectGenerator(naca)
    /\ coords' = CallGenerator(SelectGenerator(naca), naca, chord, points)
    /\ genEntry' = IF Use5(naca) THEN TableEntry(naca) ELSE NoEntry
    /\ parsed' = parsed
    /\ UNCHANGED <<auxVars, pageVars, paramVars, inputs, morph, geom, uiVars>>

NextGen == Generate

SpecGen == InitGen /\ [][NextGen]_vars

\* the surface points of sample k, as the generator alg computes them
SamplePoints(alg, k) ==
    IF alg = "naca5" THEN Sample5(naca, chord, points, k)
    ELSE Sample4(naca, chord, points, k)

Centered(pt) == [x |-> pt.x - RoundDiv(chord, 2), y |-> pt.y]

\* C7: the generator returns exactly 2*(n+1) points; output index k (0 <= k <= n)
\* is the upper-surface point of sample k, output index n+1+k is the lower-surface
\* point of sample n-k, each with its x shifted by -chord/2.
C7_Ordering ==
    genAlgo # "none" =>
        /\ Len(coords) = 2 * (points + 1)
        /\ \A k \in 0 .. points :
              /\ coords[k + 1] = Centered(SamplePoints(genAlgo, k).upper)
              /\ coords[points + 1 + k + 1]
                   = Centered(SamplePoints(genAlgo, points - k).lower)

\* a generated section of at least three samples whose two surfaces differ
C7_Witness ==
    /\ genAlgo # "none"
    /\ points >= 3
    /\ coords[2] # coords[Len(coords) - 1]
    /\ coords[points + 1] # coords[points + 2]

\* C8: for every 4-digit and 5-digit designation (reflex codes included) the first
\* and the last point returned coincide: both are the sample-0 point, where the
\* thickness half-width is 0, so the polygon is closed before de-duplication.
C8_Closed ==
    genAlgo # "none" =>
        /\ coords[1] = coords[Len(coords)]
        /\ coords[1] = Centered(SamplePoints(genAlgo, 0).upper)
        /\ coords[Len(coords)] = Centered(SamplePoints(genAlgo, 0).lower)

\* a reflex 5-digit section with non-zero thickness, whose camber line does not
\* start at y = 0
C8_Witness ==
    /\ genAlgo = "naca5"
    /\ naca[3] = 1
    /\ TwoDigits(naca, 4) > 0
    /\ coords[1].y # 0
    /\ coords[1] = coords[Len(coords)]

\* C10: the 5-digit generator looks its table entry up with key P*5; a tabulated
\* key (standard 5,10,15,20,25; reflex 10,15,20,25) selects its own entry, every
\* other P (0, 6..9, and P = 1 with the reflex flag) selects the 15-entry of the
\* selected table; an entry is always found.
C10_TableFallback ==
    genAlgo = "naca5" =>
        LET P == naca[2]
            Q == naca[3]
        IN  /\ Q = 1 /\ P \in 2 .. 5 => genEntry = ReflexTable[P * 5]
            /\ Q = 1 /\ P \notin 2 .. 5 => genEntry = ReflexTable[15]
            /\ Q # 1 /\ P \in 1 .. 5 => genEntry = StandardTable[P * 5]
            /\ Q # 1 /\ P \notin 1 .. 5 => genEntry = StandardTable[15]
            /\ genEntry.r > 0

\* a reflex code with P = 1, whose key 5 only the standard table holds
C10_Witness ==
    /\ genAlgo = "naca5"
    /\ naca[2] = 1
    /\ naca[3] = 1
    /\ genEntry = ReflexTable[15]

\* the table the reflex flag Q of a 5-digit code selects
SelectedTable(code) == IF code[3] = 1 THEN ReflexTable ELSE StandardTable

\* the tabulated key nearest to key in table
NearestKey(table, key) ==
    CHOOSE k \in DOMAIN table : \A k2 \in DOMAIN table : Abs(k - key) <= Abs(k2 - key)

\* C11 (as claimed): a position code P whose key P*5 is not in the selected table
\* falls back to the nearest tabulated entry (P = 0 to the first key, P = 6..9 to
\* key 25), for the standard and the reflex table.
C11_NearestFallback ==
    genAlgo = "naca5" /\ naca[2] * 5 \notin DOMAIN SelectedTable(naca) =>
        genEntry = SelectedTable(naca)[NearestKey(SelectedTable(naca), naca[2] * 5)]

\* C11 (amended): a position code P whose key P*5 is not in the selected table
\* uses the entry of key 15 of that table, so the cross-section is the one of the
\* same code with P = 3.
C11_FallbackIsFifteen ==
    genAlgo = "naca5" /\ naca[2] * 5 \notin DOMAIN SelectedTable(naca) =>
        /\ genEntry = SelectedTable(naca)[15]
        /\ coords = naca5Coordinates([naca EXCEPT ![2] = 3], chord, points)

\* a cambered standard code with P = 0, whose nearest key would be 5, and a
\* cross-section that differs from the one the key-5 entry gives
C11_Witness ==
    /\ genAlgo = "naca5"
    /\ naca[1] > 0
    /\ naca[2] = 0
    /\ naca[3] = 0
    /\ genEntry = StandardTable[15]
    /\ coords # naca5Coordinates([naca EXCEPT ![2] = 1], chord, points)

\* C20: for every 4-digit designation whose camber-position digit is 0, whatever
\* its max-camber digit, camber and slope are zero at every sample: the upper
\* point of sample k (output index k) and the lower point (output index 2n+1-k)
\* have identical x and negated y.
C20_SymmetricWhenPZero ==
    genAlgo = "naca4" /\ Len(naca) = 4 /\ naca[2] = 0 =>
        \A k \in 0 .. points :
            /\ Camber4(Numbers(parseNACA(naca)).m, 0, chord,
                       Div(SampleX(chord, points, k), chord)) = [yc |-> 0, dyc |-> 0]
            /\ coords[k + 1].x = coords[2 * points + 2 - k].x
            /\ coords[k + 1].y = -coords[2 * points + 2 - k].y

\* a designation with max-camber digit 9 and camber position 0, with thickness
C20_Witness ==
    /\ genAlgo = "naca4"
    /\ naca[1] = 9
    /\ naca[2] = 0
    /\ points >= 3
    /\ coords[2].y > 0
    /\ coords[2].y = -coords[2 * points + 1].y

\* C21: for every 4-digit code with camber position p in 0.1 .. 0.9 the forward
\* and the aft camber segment agree at x/chord = p, in value (both m * chord)
\* and in slope (both 0), and neither segment divides by zero.
C21_SegmentsAgreeAtPeak ==
    genAlgo = "naca4" /\ Len(naca) = 4 /\ naca[2] # 0 =>
        \A d \in {naca[2]} \cup (1 .. 9) :
            LET m == Numbers(parseNACA(naca)).m
                p == Numbers(parseNACA(<<naca[1], d, naca[3], naca[4]>>)).p
            IN  /\ Mul(p, p) # 0
                /\ Pow(Unit - p, 2) # 0
                /\ Camber4Fore(m, p, chord, p) = Camber4Aft(m, p, chord, p)
                /\ Camber4Aft(m, p, chord, p) = [yc |-> Mul(m, chord), dyc |-> 0]
                /\ Camber4(m, p, chord, p) = Camber4Aft(m, p, chord, p)

\* a cambered designation whose samples fall on both sides of the peak
C21_Witness ==
    /\ genAlgo = "naca4"
    /\ naca[1] > 0
    /\ naca[2] \in 1 .. 9
    /\ \E i, k \in 0 .. points :
          /\ Div(SampleX(chord, points, i), chord) < Numbers(parseNACA(naca)).p
          /\ Div(SampleX(chord, points, k), chord) >= Numbers(parseNACA(naca)).p
          /\ coords[k + 1].y # -coords[2 * points + 2 - k].y

-----------------------------------------------------------------------------
(* The generator called again and again: what a call leaves behind *)

CallCodes == {<<0, 0, 1, 2>>, <<2, 4, 1, 2>>, <<2, 3, 0, 1, 2>>}
CallChords == {Unit}
CallPoints == {1, 3}
CallAlgos == {"naca4", "naca5"}

\* CallResult with coords kept from one call to the next
CallResultAppending(previous, alg, code, c, n) ==
    previous \o CallGenerator(alg, code, c, n)

\* the array a call returns when the call before it returned previous: ptsUpper,
\* ptsLower, coords and shifted are new arrays of the call, the tables its own
\* object literals
CallResult(previous, alg, code, c, n) == CallGenerator(alg, code, c, n)

\* the arguments of the call that produced coords
LastCall == [alg |-> genAlgo, naca |-> naca, chord |-> chord, points |-> points]

SameCall(a, b) ==
    /\ a.alg = b.alg
    /\ a.naca = b.naca
    /\ a.chord = b.chord
    /\ a.points = b.points

InitCalls ==
    /\ naca = <<2, 4, 1, 2>>
    /\ chord = Unit
    /\ points = 1
    /\ depth = DefaultDepth
    /\ scale = DefaultScale
    /\ coords = <<>>
    /\ genAlgo = "none"
    /\ genEntry = NoEntry
    /\ morph = NoMorph
    /\ geom = NoGeom
    /\ inputs = NoInputs
    /\ NoPage
    /\ NoAux
    /\ utilsBuild = "part_004"
    /\ coordsFunc = SelectGenerator(naca)
    /\ extrudeAlgo = "none"
    /\ meshAlgo = "none"

\* one call naca4Coordinates(code, c, n) or naca5Coordinates(code, c, n)
Call(alg, code, c, n) ==
    /\ genAlgo' = alg
    /\ naca' = code
    /\ chord' = c
    /\ points' = n
    /\ coords' = CallResult(coords, alg, code, c, n)
    /\ genEntry' = IF alg = "naca5" THEN TableEntry(code) ELSE NoEntry
    /\ earlier' = IF earlier = NoEarlier THEN earlier
                  ELSE [earlier EXCEPT !.others =
                          @ \/ ~SameCall(earlier, [alg |-> alg, naca |-> code,
                                                  chord |-> c, points |-> n])]
    /\ UNCHANGED <<scene, rec, deb, pageVars, depth, scale, parsed, inputs, morph, geom, uiVars>>

\* the caller keeps the array the last call returned
KeepResult ==
    /\ genAlgo # "none"
    /\ earlier = NoEarlier
    /\ earlier' = [alg |-> genAlgo, naca |-> naca, chord |-> chord, points |-> points,
                   coords |-> coords, others |-> FALSE]
    /\ UNCHANGED <<scene, rec, deb, pageVars, paramVars, genVars, inputs, morph, geom, uiVars>>

NextCalls ==
    \/ \E alg \in CallAlgos, code \in CallCodes, c \in CallChords, n \in CallPoints :
          Call(alg, code, c, n)
    \/ KeepResult

SpecCalls == InitCalls /\ [][NextCalls]_vars

-----------------------------------------------------------------------------
(* parseNACA as a pure function of any text: SpecParse draws the text and calls it *)

\* a digit 0, a digit 2, a space, a minus sign and a letter
ParseChars == {0, 2, 32, 45, 97}

RECURSIVE TextsOfLen(_)
TextsOfLen(k) ==
    IF k = 0 THEN {<<>>}
    ELSE {<<ch>> \o text : ch \in ParseChars, text \in TextsOfLen(k - 1)}

ParseTexts == UNION {TextsOfLen(k) : k \in 0 .. MaxTextLen}

InitParse ==
    /\ naca \in ParseTexts
    /\ chord = Unit
    /\ points = 1
    /\ depth = DefaultDepth
    /\ scale = DefaultScale
    /\ coords = <<>>
    /\ genAlgo = "none"
    /\ genEntry = NoEntry
    /\ morph = NoMorph
    /\ geom = NoGeom
    /\ inputs = NoInputs
    /\ NoPage
    /\ NoAux
    /\ utilsBuild = "part_004"
    /\ coordsFunc = "none"
    /\ extrudeAlgo = "none"
    /\ meshAlgo = "none"

\* parseNACA(code), the first statement of naca4Coordinates
Parse ==
    /\ parsed = NoParse
    /\ parsed' = parseNACA(naca)
    /\ UNCHANGED <<auxVars, pageVars, paramVars, coords, genAlgo, genEntry, inputs, morph, geom, uiVars>>

NextParse == Parse

SpecParse == InitParse /\ [][NextParse]_vars

\* C12 (as claimed): a digit position that fails to parse as a number is treated
\* as 0, so maxCamber, camberPosition and thickness are numbers and never NaN, for
\* every input string.
C12_NeverNaN ==
    parsed # NoParse =>
        /\ parsed.m # NaN
        /\ parsed.p # NaN
        /\ parsed.t # NaN
        /\ \A i \in 1 .. 2 : PadStart(naca, 4)[i] \notin Digits =>
               (IF i = 1 THEN parsed.m ELSE parsed.p) = <<0>>

-----------------------------------------------------------------------------
(* The mesh builder as a function of params and its arguments: SpecMesh draws
   params and the arguments, and applySpanMorph builds the geometry *)

\* the generator createSpanMorphGeometry calls: selected from params.naca
\* (part_004), or the function handed in at construction (frontend/utils.js)
MeshGenerator ==
    IF utilsBuild = "part_004" THEN SelectGenerator(naca) ELSE coordsFunc

createSpanMorphGeometry(startPercent, thicknessFactor, slices, shiftAmount, dihedralAngle) ==
    SpanMorphGeometry(CallGenerator(MeshGenerator, naca, chord, points),
                      [chord |-> chord, depth |-> depth, scale |-> scale],
                      startPercent, thicknessFactor, slices, shiftAmount, dihedralAngle)

MeshCodes == {<<2, 4, 1, 2>>, <<2, 3, 1, 1, 2>>}

ParamSets ==
    {[chord |-> Unit, depth |-> 3 * Unit, scale |-> 3 * Unit],
     [chord |-> 2 * Unit, depth |-> Unit, scale |-> Unit \div 2]}

StartPercents == {-(Unit \div 2), 0, Unit \div 2, Unit, 3 * (Unit \div 2)}
ThicknessFactors == {Unit \div 2, Unit, 2 * Unit}
SliceValues == {Unit, 5 * (Unit \div 2)} \cup {k * Unit : k \in 2 .. MaxSlices}
ShiftAmounts == {0, Unit \div 4}
DihedralAngles == {0, 3000}

InitMesh ==
    /\ naca \in MeshCodes
    /\ points \in 1 .. MaxPoints
    /\ \E ps \in ParamSets :
          /\ chord = ps.chord
          /\ depth = ps.depth
          /\ scale = ps.scale
    /\ coords = <<>>
    /\ genAlgo = "none"
    /\ genEntry = NoEntry
    /\ morph \in [startPercent : StartPercents, thicknessFactor : ThicknessFactors,
                  slices : SliceValues, shiftAmount : ShiftAmounts,
                  dihedralAngle : DihedralAngles]
    /\ geom = NoGeom
    /\ inputs = NoInputs
    /\ NoPage
    /\ NoAux
    /\ utilsBuild = "part_004"
    /\ coordsFunc = SelectGenerator(naca)
    /\ extrudeAlgo = SelectGenerator(naca)
    /\ meshAlgo = "none"

\* applySpanMorph with the arguments held in morph: replace the mesh geometry by a
\* new span-morph geometry
ApplySpanMorph ==
    /\ geom = NoGeom
    /\ geom' = createSpanMorphGeometry(morph.startPercent, morph.thicknessFactor,
                                       SliceArg(morph.slices), morph.shiftAmount,
                                       morph.dihedralAngle)
    /\ meshAlgo' = MeshGenerator
    /\ coords' = CallGenerator(MeshGenerator, naca, chord, points)
    /\ genAlgo' = MeshGenerator
    /\ genEntry' = IF MeshGenerator = "naca5" THEN TableEntry(naca) ELSE NoEntry
    /\ UNCHANGED <<auxVars, pageVars, paramVars, parsed, inputs, morph, utilsBuild, coordsFunc,
                   extrudeAlgo>>

NextMesh == ApplySpanMorph

SpecMesh == InitMesh /\ [][NextMesh]_vars

\* the arguments the morph panel starts with: start 50 %, factor 1, no shift, no
\* dihedral; the slice count is drawn, whole and fractional, from 0 up
TopoSliceValues == {k * (Unit \div 2) : k \in 0 .. 2 * MaxSlices}

\* params.points: a sample count, or the -1 a query string ?points=-1 leaves,
\* for which the generator's loop does not run
TopoPoints == {-1} \cup 1 .. MaxPoints

InitTopo ==
    /\ naca \in MeshCodes \cup {<<0, 0, 0, 0>>}
    /\ points \in TopoPoints
    /\ \E ps \in ParamSets :
          /\ chord = ps.chord
          /\ depth = ps.depth
          /\ scale = ps.scale
    /\ coords = <<>>
    /\ genAlgo = "none"
    /\ genEntry = NoEntry
    /\ morph \in [startPercent : {Unit \div 2}, thicknessFactor : {Unit},
                  slices : TopoSliceValues, shiftAmount : {0}, dihedralAngle : {0}]
    /\ geom = NoGeom
    /\ inputs = NoInputs
    /\ NoPage
    /\ NoAux
    /\ utilsBuild = "part_004"
    /\ coordsFunc = SelectGenerator(naca)
    /\ extrudeAlgo = SelectGenerator(naca)
    /\ meshAlgo = "none"

SpecTopo == InitTopo /\ [][NextMesh]_vars

\* vertex idx (from 0) of the position buffer
VertexAt(g, idx) ==
    <<g.positions[3 * idx + 1], g.positions[3 * idx + 2], g.positions[3 * idx + 3]>>

\* triangle k (from 1) of the index buffer
TriangleAt(g, k) == <<g.indices[3 * k - 2], g.indices[3 * k - 1], g.indices[3 * k]>>

TriangleCount(g) == Len(g.indices) \div 3

\* the three directed edges of a triangle
DirectedEdges(tri) == {<<tri[1], tri[2]>>, <<tri[2], tri[3]>>, <<tri[3], tri[1]>>}

Reverse(e) == <<e[2], e[1]>>

\* C1: for N >= 3 and S >= 2 the position buffer holds exactly S*N + 2 vertices
\* (3 floats each), the index buffer exactly 2*N*(S-1) side triangles plus 2*N cap
\* triangles (3 indices each), and every index lies in 0 .. S*N+1.
C1_BufferSizes ==
    geom # NoGeom /\ geom.N >= 3 /\ geom.slices >= 2 =>
        LET N == geom.N
            S == geom.slices
        IN  /\ N = Len(geom.shape2D)
            /\ S = Max(2, morph.slices \div Unit)
            /\ Len(geom.positions) = 3 * (S * N + 2)
            /\ Len(geom.indices) = 3 * (2 * N * (S - 1) + 2 * N)
            /\ \A i \in 1 .. Len(geom.indices) : geom.indices[i] \in 0 .. S * N + 1

\* a geometry of at least three slices over a section of at least five points
C1_Witness ==
    /\ geom # NoGeom
    /\ geom.N >= 5
    /\ geom.slices >= 3
    /\ Len(geom.positions) = 3 * (geom.slices * geom.N + 2)

\* C2: for N >= 3 and S >= 2 the index buffer describes a closed surface: every
\* undirected edge of a triangle occurs in exactly two triangles, and no triangle
\* repeats a vertex index.
C2_Watertight ==
    geom # NoGeom /\ geom.N >= 3 /\ geom.slices >= 2 =>
        LET T == 1 .. TriangleCount(geom)
        IN  \A k \in T :
              LET tri == TriangleAt(geom, k)
              IN  /\ tri[1] # tri[2] /\ tri[2] # tri[3] /\ tri[3] # tri[1]
                  /\ \A e \in DirectedEdges(tri) :
                        Cardinality({k2 \in T :
                            \/ e \in DirectedEdges(TriangleAt(geom, k2))
                            \/ Reverse(e) \in DirectedEdges(TriangleAt(geom, k2))}) = 2

\* a geometry with side walls between three stations and both caps
C2_Witness ==
    /\ geom # NoGeom
    /\ geom.N >= 5
    /\ geom.slices = 3
    /\ TriangleCount(geom) = 6 * geom.N

\* C3 (as claimed): all triangles are wound consistently: for every directed edge
\* (a,b) of a triangle no other triangle contains (a,b) and exactly one other
\* triangle contains (b,a).
C3_ConsistentWinding ==
    geom # NoGeom /\ geom.N >= 3 /\ geom.slices >= 2 =>
        LET T == 1 .. TriangleCount(geom)
        IN  \A k \in T :
              \A e \in DirectedEdges(TriangleAt(geom, k)) :
                 /\ \A k2 \in T \ {k} : e \notin DirectedEdges(TriangleAt(geom, k2))
                 /\ Cardinality({k2 \in T \ {k} :
                       Reverse(e) \in DirectedEdges(TriangleAt(geom, k2))}) = 1

\* C13 (as claimed): a cross-section of fewer than 3 points after de-duplication
\* is rejected: whenever the mesh builder has produced a geometry, N >= 3.
C13_RejectsSmallSection ==
    geom # NoGeom => geom.N >= 3

\* C14: createSpanMorphGeometry is only ever executed with an integer slice count
\* equal to max(2, floor(slices)) of the slices handed to applySpanMorph: never
\* fewer than 2 and never a fractional count; it builds that many stations.
C14_SliceCount ==
    geom # NoGeom =>
        /\ geom.slices \in Nat
        /\ geom.slices >= 2
        /\ geom.slices * Unit <= Max(2 * Unit, morph.slices)
        /\ Max(2 * Unit, morph.slices) < (geom.slices + 1) * Unit
        /\ Len(geom.stations) = geom.slices

\* applySpanMorph called with 2.5 slices, and called with none
C14_Witness ==
    /\ geom # NoGeom
    /\ morph.slices \in {0, 5 * (Unit \div 2)}
    /\ geom.slices = 2

\* the same on the page: every call the handlers make has at least 2 slices
C14_PageSliceCount ==
    meshCall # NoCall => meshCall.slices >= 2 /\ meshCall.slices = SliceArg(morph.slices)

\* C15: de-duplication removes the last cross-section point if and only if it
\* differs from the first by less than the tolerance in both x and y; it removes
\* at most one point, leaves the generator's array as it was returned, and for a
\* cross-section generated with n >= 1 leaves exactly N = 2n + 1 points.
C15_Dedup ==
    geom # NoGeom =>
        LET src == coords
            out == geom.shape2D
            closing == /\ Len(src) > 1
                       /\ Abs(src[1].x - src[Len(src)].x) < Tol
                       /\ Abs(src[1].y - src[Len(src)].y) < Tol
        IN  /\ src = CallGenerator(meshAlgo, naca, chord, points)
            /\ Len(src) - Len(out) \in {0, 1}
            /\ out = SubSeq(src, 1, Len(out))
            /\ Len(out) = Len(src) - 1 <=> closing
            /\ geom.N = Len(out)
            /\ points >= 1 => Len(src) = 2 * (points + 1) /\ geom.N = 2 * points + 1

\* a cambered section of 2(n+1) = 8 points, of which 7 are kept, and whose second
\* point is not the first
C15_Witness ==
    /\ geom # NoGeom
    /\ points = 3
    /\ naca # <<0, 0, 0, 0>>
    /\ Len(coords) = 8
    /\ geom.N = 7
    /\ coords[2] # coords[1]

\* span, span/2 and startZ as the claims define them, from params and the arguments
ClaimSpan == Mul(depth, scale)
ClaimHalf == RoundDiv(ClaimSpan, 2)
ClaimStartZ == -ClaimHalf + Mul(Max(0, Min(Unit, morph.startPercent)), ClaimSpan)

\* C4: the morph progress t of every station lies in [0,1], t = 0 at every station
\* with z <= startZ, and whenever startPercent < 1 the last station (z = +span/2)
\* has t = 1.
C4_MorphProgress ==
    geom # NoGeom =>
        LET S == geom.slices
        IN  /\ \A s \in 1 .. S :
                  /\ geom.stations[s].t >= 0
                  /\ geom.stations[s].t <= Unit
                  /\ geom.stations[s].z <= ClaimStartZ => geom.stations[s].t = 0
            /\ geom.stations[S].z = ClaimHalf
            /\ morph.startPercent < Unit => geom.stations[S].t = Unit

\* the morph starts at mid-span: one station lies exactly at startZ, one lies
\* between startZ and the tip, and the tip is fully morphed
C4_Witness ==
    /\ geom # NoGeom
    /\ morph.startPercent = Unit \div 2
    /\ \E s \in 1 .. geom.slices :
          geom.stations[s].z = ClaimStartZ /\ geom.stations[s].t = 0
    /\ geom.stations[geom.slices].t = Unit

\* C5: with shiftAmount = 0 and dihedralAngle = 0, every station with z <= startZ
\* carries the cross-section unscaled (each vertex is the input point times the
\* fixed scale), and when startPercent < 1 the tip station carries it scaled by
\* exactly thicknessFactor, applied identically to local x and y.
C5_StationScale ==
    geom # NoGeom /\ morph.shiftAmount = 0 /\ morph.dihedralAngle = 0 =>
        LET S == geom.slices
            N == geom.N
            tf == morph.thicknessFactor
        IN  /\ \A s \in 1 .. S : geom.stations[s].z <= ClaimStartZ =>
                  \A j \in 1 .. N :
                      VertexAt(geom, (s - 1) * N + j - 1)
                        = <<Mul(geom.shape2D[j].x, scale), Mul(geom.shape2D[j].y, scale),
                            geom.stations[s].z>>
            /\ morph.startPercent < Unit =>
                  \A j \in 1 .. N :
                      VertexAt(geom, (S - 1) * N + j - 1)
                        = <<Mul(Mul(geom.shape2D[j].x, scale), tf),
                            Mul(Mul(geom.shape2D[j].y, scale), tf), ClaimHalf>>

\* a tip station scaled by a factor other than 1, over a section with thickness
C5_Witness ==
    /\ geom # NoGeom
    /\ morph.shiftAmount = 0
    /\ morph.dihedralAngle = 0
    /\ morph.startPercent = Unit \div 2
    /\ morph.thicknessFactor = 2 * Unit
    /\ geom.N >= 5
    /\ VertexAt(geom, (geom.slices - 1) * geom.N + 1)[2]
         = 2 * VertexAt(geom, 1)[2]
    /\ VertexAt(geom, 1)[2] # 0

\* the vertex of cross-section point j (from 1) at station s (from 1)
StationVertexAt(g, s, j) == VertexAt(g, (s - 1) * g.N + j - 1)

\* C18: with startPercent = 1, or larger (clamped to 1), every station strictly
\* before the tip has t = 0 and carries the unmorphed cross-section: no scale, no
\* shift and no dihedral offset, whatever thicknessFactor, shiftAmount and
\* dihedralAngle are.
C18_NoMorphBeforeTip ==
    geom # NoGeom /\ morph.startPercent >= Unit =>
        \A s \in 1 .. geom.slices - 1 :
            /\ geom.stations[s].z < ClaimHalf
            /\ geom.stations[s].t = 0
            /\ \A j \in 1 .. geom.N :
                   StationVertexAt(geom, s, j)
                     = <<Mul(geom.shape2D[j].x, scale), Mul(geom.shape2D[j].y, scale),
                         geom.stations[s].z>>

\* startPercent = 1.5 with factor 2, a shift and a dihedral angle, over three or
\* more stations of a section with thickness
C18_Witness ==
    /\ geom # NoGeom
    /\ morph.startPercent = 3 * (Unit \div 2)
    /\ morph.thicknessFactor = 2 * Unit
    /\ morph.shiftAmount > 0
    /\ morph.dihedralAngle > 0
    /\ geom.slices >= 3
    /\ geom.stations[geom.slices - 1].t = 0
    /\ StationVertexAt(geom, geom.slices - 1, 2)[2] # 0

\* C19: with thicknessFactor = 1, shiftAmount = 0 and dihedralAngle = 0, whatever
\* startPercent, span and slice count are, every station's vertices have the same
\* (x, y) as those of every other station, each the input point times the fixed
\* scale; stations differ only in z.
C19_CylindricalLoft ==
    geom # NoGeom /\ morph.thicknessFactor = Unit /\ morph.shiftAmount = 0
                  /\ morph.dihedralAngle = 0 =>
        \A s \in 1 .. geom.slices : \A j \in 1 .. geom.N :
            /\ StationVertexAt(geom, s, j)[1] = Mul(geom.shape2D[j].x, scale)
            /\ StationVertexAt(geom, s, j)[2] = Mul(geom.shape2D[j].y, scale)
            /\ StationVertexAt(geom, s, j)[3] = geom.stations[s].z
            /\ s > 1 => geom.stations[s].z > geom.stations[s - 1].z

\* a loft whose morph region is the whole span (start 0), with factor 1: the tip
\* station is fully morphed and still the root's copy
C19_Witness ==
    /\ geom # NoGeom
    /\ morph.thicknessFactor = Unit
    /\ morph.shiftAmount = 0
    /\ morph.dihedralAngle = 0
    /\ morph.startPercent = 0
    /\ geom.slices >= 3
    /\ geom.stations[geom.slices].t = Unit
    /\ StationVertexAt(geom, geom.slices, 2)[2] # 0
    /\ StationVertexAt(geom, geom.slices, 2)[2] = StationVertexAt(geom, 1, 2)[2]

\* C6 (as claimed): the apex vertices are stored at indices S*N (root) and S*N+1
\* (tip); the root-center vertex is (0, 0, -span/2) and the tip-center vertex is
\* (shiftAmount*chord, tan(dihedralAngle)*(span/2 - startZ), +span/2).
C6_ApexAsClaimed ==
    geom # NoGeom =>
        LET S == geom.slices
            N == geom.N
        IN  /\ VertexAt(geom, S * N) = <<0, 0, -ClaimHalf>>
            /\ VertexAt(geom, S * N + 1)
                 = <<Mul(morph.shiftAmount, chord),
                     Mul(Tan(morph.dihedralAngle), ClaimHalf - ClaimStartZ), ClaimHalf>>

\* C6 (amended): as C6, with the tip-center x equal to shiftAmount*chord*scale.
C6_ApexScaled ==
    geom # NoGeom =>
        LET S == geom.slices
            N == geom.N
        IN  /\ Len(geom.positions) = 3 * (S * N + 2)
            /\ VertexAt(geom, S * N) = <<0, 0, -ClaimHalf>>
            /\ VertexAt(geom, S * N + 1)
                 = <<Mul(Mul(morph.shiftAmount, chord), scale),
                     Mul(Tan(morph.dihedralAngle), ClaimHalf - ClaimStartZ), ClaimHalf>>

\* a tip apex displaced in x and in y, with params.scale other than 1
C6_Witness ==
    /\ geom # NoGeom
    /\ scale # Unit
    /\ morph.shiftAmount # 0
    /\ morph.dihedralAngle # 0
    /\ morph.startPercent = Unit \div 2
    /\ VertexAt(geom, geom.slices * geom.N + 1)[1] # 0
    /\ VertexAt(geom, geom.slices * geom.N + 1)[2] # 0

\* the translation the last station applies to its points
TipStationOrigin(g) ==
    <<g.stations[g.slices].shift, g.stations[g.slices].dihedralOffset>>

\* the (x, y) of the tip-center apex
TipApexXY(g) ==
    <<VertexAt(g, g.slices * g.N + 1)[1], VertexAt(g, g.slices * g.N + 1)[2]>>

\* C27 (as claimed): for every parameter set, startPercent = 1 with a shift
\* included, the tip-center apex lies at the tip station's own section origin:
\* its (x, y) is the translation (t*shift, t*tan(dihedral)*(z - startZ)) the last
\* station applies to its points.
C27_ApexAtStationOrigin ==
    geom # NoGeom => TipApexXY(geom) = TipStationOrigin(geom)

\* C27 (amended): the apex is at (maxShiftAbs, tan(dihedral)*(span/2 - startZ)),
\* the offset of the full morph.  When startPercent < 1 the last station has
\* t = 1 and that is its section origin; when startPercent >= 1 the last station
\* has t = 0, its origin is (0, 0), and the apex is still at (maxShiftAbs, 0).
C27_ApexAtFullMorph ==
    geom # NoGeom =>
        /\ TipApexXY(geom)
             = <<geom.maxShiftAbs, Mul(geom.dihedralTan, geom.half - geom.startZ)>>
        /\ morph.startPercent < Unit =>
             /\ geom.stations[geom.slices].t = Unit
             /\ TipApexXY(geom) = TipStationOrigin(geom)
        /\ morph.startPercent >= Unit =>
             /\ geom.stations[geom.slices].t = 0
             /\ TipStationOrigin(geom) = <<0, 0>>
             /\ TipApexXY(geom) = <<geom.maxShiftAbs, 0>>

\* a wing morphed from the tip on, with a shift: the apex is off the section
C27_Witness ==
    /\ geom # NoGeom
    /\ morph.startPercent = Unit
    /\ morph.shiftAmount # 0
    /\ morph.dihedralAngle # 0
    /\ TipApexXY(geom)[1] # 0
    /\ TipStationOrigin(geom) = <<0, 0>>

-----------------------------------------------------------------------------
(* wing.js and utils.js: the page in normal mode.  Spec follows which generator
   builds each geometry and with which arguments; the buffers themselves are the
   subject of SpecGen, SpecTopo and SpecMesh.

   The value of an input element is <<v>> when it parses as the number v and
   <<>> when it does not. *)

\* parseFloat(value) || fallback
ParseOr(value, fallback) ==
    IF value = <<>> \/ value[1] = 0 THEN fallback ELSE value[1]

\* parseInt of a number's text: the digits before the decimal point
Trunc(v) == Sgn(v) * (Abs(v) \div Unit)

\* parseInt(value, 10) || fallback, as an integer
ParseIntOr(value, fallback) ==
    IF value = <<>> \/ Trunc(value[1]) = 0 THEN fallback ELSE Trunc(value[1])

\* the arguments the apply handler, and setFoilMesh, read from the morph inputs
ReadMorphInputs(inp) ==
    [startPercent |-> RoundDiv(Max(0, Min(100 * Unit, ParseOr(inp.start, 50 * Unit))), 100),
     thicknessFactor |-> Max(100, ParseOr(inp.factor, Unit)),
     slices |-> Max(2, ParseIntOr(inp.slices, 40)) * Unit,
     shiftAmount |-> ParseOr(inp.shift, 0),
     dihedralAngle |-> RoundDiv(Mul(ParseOr(inp.dihedral, 0), PI), 180)]

\* the values the morph inputs are created with (frontend/utils.js; part_004
\* without options)
DefaultInputs ==
    [start |-> <<50 * Unit>>, factor |-> <<Unit>>, slices |-> <<40 * Unit>>,
     shift |-> <<0>>, dihedral |-> <<0>>]

\* String(value).replace(/\D/g, ''): characters 0..9 are the digits
StripNonDigits(text) == SelectSeq(text, LAMBDA c : c \in Digits)

RECURSIVE IntToDigits(_)
IntToDigits(n) ==
    IF n < 10 THEN <<n>> ELSE IntToDigits(n \div 10) \o <<n % 10>>

\* applyInputs: the designation read from the NACA input
ReadNaca(text) ==
    LET raw == StripNonDigits(text)
    IN  IF Len(raw) = 5 THEN raw
        ELSE PadStart(IntToDigits(Max(0, Min(9999, DigitsToInt(raw)))), 4)

\* designations the page may be opened with (?naca=...)
UrlCodes == {<<2, 3, 0, 1, 2>>}

\* texts typed into the NACA input; 45 is a character that is no digit
NacaTexts == {<<1, 2>>, <<2, 3, 45, 0, 1, 2>>, <<1, 2, 3, 4, 5, 6>>}

ChordTexts == {<<0>>}
PointsTexts == {<<5 * Unit>>}
DepthTexts == {<<>>}
ScaleTexts == {<<>>}

MorphTexts ==
    [start : {<<25 * Unit>>}, factor : {<<2 * Unit>>},
     slices : {<<40 * Unit>>, <<5 * (Unit \div 2)>>}, shift : {<<0>>},
     dihedral : {<<0>>}]

\* a query string: each parameter is absent (<<>>) or present with a value
EmptyQuery ==
    [naca |-> <<>>, chord |-> <<>>, points |-> <<>>, depth |-> <<>>, scale |-> <<>>,
     start |-> <<>>, factor |-> <<>>, slices |-> <<>>, shift |-> <<>>,
     dihedral |-> <<>>, mode |-> <<>>]

\* the query strings the page may be opened with, in either mode
UrlQueries ==
    LET base == {EmptyQuery}
                  \cup {[EmptyQuery EXCEPT !.naca = <<code>>] : code \in UrlCodes}
                  \cup {[EmptyQuery EXCEPT !.chord = <<-Unit>>],
                        [EmptyQuery EXCEPT !.points = <<-Unit>>],
                        [EmptyQuery EXCEPT !.depth = <<0>>],
                        [EmptyQuery EXCEPT !.factor = <<-Unit>>],
                        [EmptyQuery EXCEPT !.slices = <<Unit>>],
                        [EmptyQuery EXCEPT !.start = <<0>>],
                        [EmptyQuery EXCEPT !.start = <<3 * (Unit \div 2)>>,
                                           !.dihedral = <<5 * Unit>>]}
    IN  {[q EXCEPT !.mode = m] : q \in base, m \in {<<>>, <<"cinematic">>}}

\* initParamsFromURL (and the same lines of animateFoil): params after the
\* query string has been read
ParamsFromURL(q) ==
    [naca   |-> IF q.naca # <<>> /\ q.naca[1] # <<>>
                THEN StripNonDigits(q.naca[1]) ELSE <<2, 4, 1, 2>>,
     chord  |-> IF q.chord = <<>> THEN Unit ELSE q.chord[1],
     points |-> IF q.points = <<>> THEN 200 ELSE Trunc(q.points[1]),
     depth  |-> IF q.depth = <<>> THEN DefaultDepth ELSE q.depth[1],
     scale  |-> IF q.scale = <<>> THEN DefaultScale ELSE q.scale[1]]

\* startMode
StartMode(q) == IF q.mode = <<>> THEN "normal" ELSE q.mode[1]

\* degrees * Math.PI / 180 and radians * 180 / Math.PI
ToRadians(deg) == RoundDiv(Mul(deg, PI), 180)
ToDegrees(rad) == RoundDiv(rad * 180 * Unit, PI)

\* readSpanParamsFromURL: the options it sets, each absent or a number
readSpanParamsFromURL(q) ==
    [startPercent    |-> IF q.start = <<>> THEN <<>> ELSE <<Clamp01(q.start[1])>>,
     thicknessFactor |-> q.factor,
     slices          |-> IF q.slices = <<>> THEN <<>> ELSE <<Trunc(q.slices[1])>>,
     shiftAmount     |-> q.shift,
     dihedralAngle   |-> IF q.dihedral = <<>> THEN <<>> ELSE <<ToRadians(q.dihedral[1])>>]

\* (typeof option === 'number') ? option : fallback
OptionOr(option, fallback) == IF option = <<>> THEN fallback ELSE option[1]

\* Math.round of a non-negative value
Round(v) == ((v + Unit \div 2) \div Unit) * Unit

\* the values addSpanMorphUI gives its inputs: from the options (part_004), or
\* fixed (frontend/utils.js, which ignores its fourth argument)
InitialInputs(build, opt) ==
    IF build = "frontend" THEN DefaultInputs
    ELSE [start    |-> <<Round(100 * OptionOr(opt.startPercent, Unit \div 2))>>,
          factor   |-> <<OptionOr(opt.thicknessFactor, Unit)>>,
          slices   |-> <<OptionOr(opt.slices, 40) * Unit>>,
          shift    |-> <<OptionOr(opt.shiftAmount, 0)>>,
          dihedral |-> <<ToDegrees(OptionOr(opt.dihedralAngle, 0))>>]

\* the generator a controller's createSpanMorphGeometry calls for params p, when
\* it was handed the function captured
ControllerGenerator(build, p, captured) ==
    IF build = "part_004" THEN SelectGenerator(p.naca) ELSE captured

\* one execution of createSpanMorphGeometry: the params it reads, the arguments
\* applySpanMorph passes, and the generator it calls
MeshCall(p, m, algo) ==
    [naca |-> p.naca, chord |-> p.chord, points |-> p.points, depth |-> p.depth,
     scale |-> p.scale, startPercent |-> m.startPercent,
     thicknessFactor |-> m.thicknessFactor, slices |-> SliceArg(m.slices),
     shiftAmount |-> m.shiftAmount, dihedralAngle |-> m.dihedralAngle, algo |-> algo]

\* the generator call of buildAirfoilMesh
GenCall(p) ==
    [naca |-> p.naca, chord |-> p.chord, points |-> p.points,
     algo |-> SelectGenerator(p.naca)]

\* the closure variables animateFoil starts with
CineStart(q) ==
    LET opt == readSpanParamsFromURL(q)
    IN  [startPercent    |-> OptionOr(opt.startPercent, Unit \div 2),
         thicknessFactor |-> OptionOr(opt.thicknessFactor, Unit),
         shiftAmount     |-> OptionOr(opt.shiftAmount, 0),
         dihedralAngle   |-> OptionOr(opt.dihedralAngle, 0),
         nacaCode        |-> ParamsFromURL(q).naca,
         params          |-> ParamsFromURL(q),
         coordsFunc      |-> "naca4"]

\* the arguments the cinematic handlers pass to applySpanMorph
CineArgs(c) ==
    [startPercent |-> c.startPercent, thicknessFactor |-> c.thicknessFactor,
     slices |-> 40 * Unit, shiftAmount |-> c.shiftAmount,
     dihedralAngle |-> c.dihedralAngle]

\* the page after wing.js has run on query string q: params, the foil of
\* buildAirfoilMesh, the controller of addSpanMorphUI, whose last statement
\* clicks the apply button, and in cinematic mode animateFoil, which makes its
\* own controllers on the same foil
Load(q, build) ==
    LET p   == ParamsFromURL(q)
        inp == InitialInputs(build, readSpanParamsFromURL(q))
        cin == CineStart(q)
        cinInputs == inp
    IN  [params |-> p, mode |-> StartMode(q), inputs |-> inp,
         coordsFunc |-> SelectGenerator(p.naca),
         genCall |-> GenCall(p),
         cine |-> IF StartMode(q) = "cinematic" THEN cin ELSE NoCine,
         morph |-> IF StartMode(q) = "cinematic" THEN ReadMorphInputs(cinInputs)
                   ELSE ReadMorphInputs(inp),
         meshCall |-> IF StartMode(q) = "cinematic"
                      THEN MeshCall(p, ReadMorphInputs(cinInputs),
                                    ControllerGenerator(build, p, "naca4"))
                      ELSE MeshCall(p, ReadMorphInputs(inp),
                                    ControllerGenerator(build, p, SelectGenerator(p.naca)))]

\* the variables of the page are those of Load(q, build)
Loaded(q, build, page) ==
    /\ naca = page.params.naca
    /\ chord = page.params.chord
    /\ points = page.params.points
    /\ depth = page.params.depth
    /\ scale = page.params.scale
    /\ url = q
    /\ mode = page.mode
    /\ cine = page.cine
    /\ inputs = page.inputs
    /\ morph = page.morph
    /\ coordsFunc = page.coordsFunc
    /\ genCall = page.genCall
    /\ extrudeAlgo = page.genCall.algo
    /\ meshCall = page.meshCall
    /\ meshAlgo = page.meshCall.algo

Init ==
    /\ utilsBuild \in {"frontend", "part_004"}
    /\ coords = <<>>
    /\ genAlgo = "none"
    /\ genEntry = NoEntry
    /\ parsed = NoParse
    /\ geom = NoGeom
    /\ NoAux
    /\ \E q \in UrlQueries : Loaded(q, utilsBuild, Load(q, utilsBuild))

\* params as a record
Params == [naca |-> naca, chord |-> chord, points |-> points, depth |-> depth,
           scale |-> scale]

\* the user edits the morph inputs
EditMorphInputs(texts) ==
    /\ mode = "normal"
    /\ inputs' = texts
    /\ UNCHANGED <<auxVars, pageVars, paramVars, genVars, morph, geom, uiVars>>

\* the click handler of the morph panel's apply button
MorphApplyClick ==
    /\ mode = "normal"
    /\ morph' = ReadMorphInputs(inputs)
    /\ meshAlgo' = MeshGenerator
    /\ meshCall' = MeshCall(Params, morph', meshAlgo')
    /\ UNCHANGED <<auxVars, url, mode, cine, genCall, paramVars, genVars, inputs, geom, utilsBuild,
                   coordsFunc, extrudeAlgo>>

\* resetDefaults (part_004) / the reset button (frontend/utils.js)
ResetDefaults ==
    /\ mode = "normal"
    /\ inputs' = DefaultInputs
    /\ morph' = ReadMorphInputs(DefaultInputs)
    /\ meshAlgo' = MeshGenerator
    /\ meshCall' = MeshCall(Params, morph', meshAlgo')
    /\ UNCHANGED <<auxVars, url, mode, cine, genCall, paramVars, genVars, geom, utilsBuild,
                   coordsFunc, extrudeAlgo>>

\* the query string applyInputs writes with history.replaceState: params, the
\* values of getCurrentValues when the controller has it (part_004), and the
\* mode when one was present
UrlAfterApply(q, p, m, build) ==
    LET withParams == [q EXCEPT !.naca = <<p.naca>>, !.chord = <<p.chord>>,
                                !.points = <<p.points * Unit>>, !.depth = <<p.depth>>,
                                !.scale = <<p.scale>>]
    IN  IF build = "part_004"
        THEN [withParams EXCEPT !.start = <<m.startPercent>>,
                                !.factor = <<m.thicknessFactor>>,
                                !.slices = <<m.slices>>,
                                !.shift = <<m.shiftAmount>>,
                                !.dihedral = <<ToDegrees(m.dihedralAngle)>>]
        ELSE withParams

\* applyInputs making a new morph panel for the new foil instead of handing the
\* foil to the existing controller
ApplyInputsNewPanel(nacaText, chordText, pointsText, depthText, scaleText) ==
    /\ mode = "normal"
    /\ naca' = ReadNaca(nacaText)
    /\ chord' = Max(10, ParseOr(chordText, chord))
    /\ points' = Max(10, Min(2000, ParseIntOr(pointsText, points)))
    /\ depth' = Max(10, ParseOr(depthText, depth))
    /\ scale' = Max(100, ParseOr(scaleText, scale))
    /\ UNCHANGED <<auxVars, genVars, geom, utilsBuild, coordsFunc, mode, cine>>
    /\ genCall' = GenCall(Params')
    /\ extrudeAlgo' = SelectGenerator(naca')
    /\ inputs' = DefaultInputs
    /\ morph' = ReadMorphInputs(DefaultInputs)
    /\ meshAlgo' = MeshGenerator'
    /\ meshCall' = MeshCall(Params', morph', meshAlgo')
    /\ url' = UrlAfterApply(url, Params', morph', utilsBuild)

\* applyInputs: read the main panel, rebuildFoil, then setFoilMesh(foil), which
\* re-applies the morph inputs to the new foil, then write the query string
ApplyInputs(nacaText, chordText, pointsText, depthText, scaleText) ==
    /\ mode = "normal"
    /\ naca' = ReadNaca(nacaText)
    /\ chord' = Max(10, ParseOr(chordText, chord))
    /\ points' = Max(10, Min(2000, ParseIntOr(pointsText, points)))
    /\ depth' = Max(10, ParseOr(depthText, depth))
    /\ scale' = Max(100, ParseOr(scaleText, scale))
    /\ UNCHANGED <<auxVars, genVars, inputs, geom, utilsBuild, coordsFunc, mode, cine>>
    /\ genCall' = GenCall(Params')
    /\ extrudeAlgo' = SelectGenerator(naca')
    /\ morph' = ReadMorphInputs(inputs)
    /\ meshAlgo' = MeshGenerator'
    /\ meshCall' = MeshCall(Params', morph', meshAlgo')
    /\ url' = UrlAfterApply(url, Params', morph', utilsBuild)

\* the page is loaded anew with query string q
Reload(q) ==
    LET page == Load(q, utilsBuild)
    IN  /\ naca' = page.params.naca
        /\ chord' = page.params.chord
        /\ points' = page.params.points
        /\ depth' = page.params.depth
        /\ scale' = page.params.scale
        /\ url' = q
        /\ mode' = page.mode
        /\ cine' = page.cine
        /\ inputs' = page.inputs
        /\ morph' = page.morph
        /\ coordsFunc' = page.coordsFunc
        /\ genCall' = page.genCall
        /\ extrudeAlgo' = page.genCall.algo
        /\ meshCall' = page.meshCall
        /\ meshAlgo' = page.meshCall.algo
        /\ UNCHANGED <<auxVars, genVars, geom, utilsBuild>>

\* the "Cinematic Mode" button of the main panel
CinematicButton ==
    /\ mode = "normal"
    /\ Reload([EmptyQuery EXCEPT !.mode = <<"cinematic">>])

\* Ctrl+M: the other mode, the rest of the query string kept
ToggleMode ==
    Reload([url EXCEPT !.mode = IF StartMode(url) = "cinematic"
                                 THEN <<"normal">> ELSE <<"cinematic">>])

\* a cinematic handler has set the closure variables to c: both controllers
\* re-apply the morph and the query string gets the parameter and the mode
CineApply(c, q) ==
    /\ mode = "cinematic"
    /\ cine' = c
    /\ morph' = CineArgs(c)
    /\ meshAlgo' = ControllerGenerator(utilsBuild, c.params, c.coordsFunc)
    /\ meshCall' = MeshCall(c.params, CineArgs(c), meshAlgo')
    /\ url' = [q EXCEPT !.mode = <<"cinematic">>]
    /\ UNCHANGED <<auxVars, paramVars, genVars, mode, genCall, inputs, geom, utilsBuild, coordsFunc,
                   extrudeAlgo>>

CrankedSlider(v) ==
    CineApply([cine EXCEPT !.startPercent = v], [url EXCEPT !.start = <<v>>])

TaperSlider(v) ==
    CineApply([cine EXCEPT !.thicknessFactor = v], [url EXCEPT !.factor = <<v>>])

ShiftSlider(v) ==
    CineApply([cine EXCEPT !.shiftAmount = v], [url EXCEPT !.shift = <<v>>])

DihedralSlider(degrees) ==
    CineApply([cine EXCEPT !.dihedralAngle = ToRadians(degrees)],
              [url EXCEPT !.dihedral = <<degrees>>])

\* rebuildWithNewNACA: new controllers for the designation typed, then the morph
\* re-applied with the closure variables
rebuildWithNewNACA(newNaca) ==
    LET raw == StripNonDigits(newNaca)
        nacaStr == IF Len(raw) = 5 \/ Len(raw) = 4 THEN raw ELSE <<2, 4, 1, 2>>
        func == IF Len(raw) = 5 THEN "naca5" ELSE "naca4"
    IN  CineApply([cine EXCEPT !.nacaCode = nacaStr, !.coordsFunc = func,
                               !.params = [cine.params EXCEPT !.naca = nacaStr]],
                  [url EXCEPT !.naca = <<nacaStr>>])

\* positions of the cinematic sliders
CrankedValues == {Unit}
TaperValues == {Unit \div 10}
ShiftValues == {Unit}
DihedralValues == {-5 * Unit}

Next ==
    \/ \E texts \in MorphTexts : EditMorphInputs(texts)
    \/ MorphApplyClick
    \/ ResetDefaults
    \/ \E nt \in NacaTexts, ct \in ChordTexts, pt \in PointsTexts, dt \in DepthTexts,
          st \in ScaleTexts : ApplyInputs(nt, ct, pt, dt, st)
    \/ CinematicButton
    \/ ToggleMode
    \/ \E v \in CrankedValues : CrankedSlider(v)
    \/ \E v \in TaperValues : TaperSlider(v)
    \/ \E v \in ShiftValues : ShiftSlider(v)
    \/ \E v \in DihedralValues : DihedralSlider(v)
    \/ \E nt \in NacaTexts : rebuildWithNewNACA(nt)

Spec == Init /\ [][Next]_vars

\* C16 (as claimed): on every path by which the page reaches the generator or the
\* mesh builder the numeric parameters have been clamped first: chord > 0,
\* points >= 1, depth*scale > 0 and thicknessFactor > 0 at every invocation.
C16_ClampedAtCall ==
    /\ genCall.chord > 0
    /\ genCall.points >= 1
    /\ meshCall.chord > 0
    /\ meshCall.points >= 1
    /\ Mul(meshCall.depth, meshCall.scale) > 0
    /\ meshCall.thicknessFactor > 0

\* C16, the cinematic handlers alone: thicknessFactor > 0 at every invocation of
\* the mesh builder.
C16_FactorAtCall == meshCall.thicknessFactor > 0

C9_SameGenerator ==
    /\ Len(naca) = 5 => extrudeAlgo = "naca5"
    /\ Len(naca) = 4 => extrudeAlgo = "naca4"
    /\ meshAlgo = extrudeAlgo

\* C25 (as claimed): for every value v in 0 .. 100 held by the morph panel's
\* start input, v = 0 and a start of 0 restored from the URL included, the apply
\* handler, setFoilMesh and getCurrentValues all use startPercent = v / 100.
C25_StartUsed ==
    mode = "normal" /\ inputs.start # <<>> /\ inputs.start[1] \in 0 .. 100 * Unit =>
        ReadMorphInputs(inputs).startPercent = RoundDiv(inputs.start[1], 100)

\* C25 for the values other than 0
C25_PositiveStartUsed ==
    mode = "normal" /\ inputs.start # <<>> /\ inputs.start[1] \in 1 .. 100 * Unit =>
        ReadMorphInputs(inputs).startPercent = RoundDiv(inputs.start[1], 100)

\* a text rebuildWithNewNACA takes for no designation: neither 4 nor 5 digits
InvalidNaca(text) == Len(StripNonDigits(text)) \notin {4, 5}

\* C26 (as claimed): in cinematic mode, when the NACA text entered has neither 4
\* nor 5 digits, rebuildWithNewNACA keeps the designation applied before: both
\* wings are still built from it and the URL's naca parameter is unchanged.
C26_InvalidKeepsPrevious ==
    [][\A nt \in NacaTexts :
          InvalidNaca(nt) /\ rebuildWithNewNACA(nt) =>
              /\ cine'.nacaCode = cine.nacaCode
              /\ meshCall'.naca = meshCall.naca
              /\ ParamsFromURL(url').naca = ParamsFromURL(url).naca]_vars

\* C26 where the designation applied before is the default 2412
C26_InvalidGivesDefault ==
    [][\A nt \in NacaTexts :
          InvalidNaca(nt) /\ rebuildWithNewNACA(nt) =>
              /\ cine'.nacaCode = <<2, 4, 1, 2>>
              /\ meshCall'.naca = <<2, 4, 1, 2>>
              /\ url'.naca = <<<<2, 4, 1, 2>>>>]_vars

\* params of the wings displayed: those of animateFoil in cinematic mode
ParamsInEffect == IF mode = "cinematic" THEN cine.params ELSE Params

\* the query string q restores the params and the morph arguments given
Restores(q, p, m) ==
    /\ ParamsFromURL(q) = p
    /\ CineStart(q).startPercent = m.startPercent
    /\ CineStart(q).thicknessFactor = m.thicknessFactor
    /\ CineStart(q).shiftAmount = m.shiftAmount

\* C24 (as claimed): a switch between normal and cinematic mode, by the button or
\* by Ctrl/Cmd+M, preserves state through the URL: after the reload the query
\* string still carries the params and span-morph values that were in effect
\* before the switch, and only the mode parameter has changed.
C24_SwitchKeepsState ==
    [][mode' # mode =>
          /\ [url' EXCEPT !.mode = url.mode] = url
          /\ Restores(url', ParamsInEffect, morph)]_vars

\* C24, its last part alone: only the mode parameter changes
C24_OnlyModeChanges ==
    [][mode' # mode => [url' EXCEPT !.mode = url.mode] = url]_vars

-----------------------------------------------------------------------------
(* The scene: the geometry object each wing's mesh holds, and the dispose calls *)

\* the foil of wing.js and the clone animateFoil makes of it
Wings == {"left", "right"}

\* the largest number of geometry objects one run allocates
MaxGeoms == 12

\* a mesh that does not exist holds no geometry
NoGeometry == 0

\* the ExtrudeGeometry of buildAirfoilMesh and the geometry of createSpanMorphGeometry
ExtrudeBuild(p) == [kind |-> "extrude", call |-> GenCall(p)]
MorphBuild(call) == [kind |-> "morph", call |-> call]

\* the scene before the foil is built
EmptyScene ==
    [geomOf |-> [w \in Wings |-> NoGeometry],
     inScene |-> {},
     geoms |-> <<>>,
     ctl |-> [w \in Wings |-> [params |-> <<>>, captured |-> "none"]],
     sharedAtDispose |-> {},
     disposedTwice |-> {},
     allocated |-> 0]

\* an object no mesh refers to any more is unreachable
Reachable(sc) ==
    [sc EXCEPT !.geoms = [g \in {sc.geomOf[w] : w \in Wings} \ {NoGeometry} |-> sc.geoms[g]]]

\* mesh.geometry = a new geometry object
NewGeometry(sc, w, build) ==
    LET g == sc.allocated + 1
    IN  Reachable([sc EXCEPT !.geomOf[w] = g,
                             !.geoms = (g :> [build |-> build, disposals |-> 0]) @@ @,
                             !.allocated = g])

\* mesh.geometry.dispose(), with what the call meets: the geometry held by
\* another mesh in the scene, or disposed before
Dispose(sc, w) ==
    LET g == sc.geomOf[w]
    IN  IF g = NoGeometry THEN sc
        ELSE [sc EXCEPT !.geoms[g].disposals = @ + 1,
                        !.sharedAtDispose =
                            IF \E v \in sc.inScene \ {w} : sc.geomOf[v] = g
                            THEN @ \cup {g} ELSE @,
                        !.disposedTwice =
                            IF sc.geoms[g].disposals > 0 THEN @ \cup {g} ELSE @]

\* applySpanMorph of the controller of wing w: dispose the mesh's geometry, then
\* mesh.geometry = createSpanMorphGeometry(...); the foil group has no line
applySpanMorphOn(sc, w, call) == NewGeometry(Dispose(sc, w), w, MorphBuild(call))

\* rightWing = foil.clone(); scene.add(rightWing): the clone's mesh holds the
\* geometry object of the original
CloneWing(sc) ==
    [sc EXCEPT !.geomOf["right"] = sc.geomOf["left"], !.inScene = @ \cup {"right"}]

\* addSpanMorphUI(p, wing w, captured, options): the controller, and the click
\* on its apply button that ends the construction
AddSpanMorphUI(sc, w, build, p, captured, opt) ==
    applySpanMorphOn([sc EXCEPT !.ctl[w] = [params |-> p, captured |-> captured]], w,
                     MeshCall(p, ReadMorphInputs(InitialInputs(build, opt)),
                              ControllerGenerator(build, p, captured)))

\* CineCalls without the call on the right controller
CineCallsLeftOnly(c) == <<[wing |-> "left", args |-> CineArgs(c)]>>

\* the applySpanMorph calls of a cinematic handler, in their order
CineCalls(c) ==
    <<[wing |-> "left", args |-> CineArgs(c)], [wing |-> "right", args |-> CineArgs(c)]>>

RECURSIVE ApplyCalls(_, _, _)
ApplyCalls(sc, build, calls) ==
    IF calls = <<>> THEN sc
    ELSE LET w == Head(calls).wing
             c == sc.ctl[w]
         IN  ApplyCalls(applySpanMorphOn(sc, w,
                            MeshCall(c.params, Head(calls).args,
                                     ControllerGenerator(build, c.params, c.captured))),
                        build, Tail(calls))

\* addSpanMorphUI without options: only appendPanel is passed
NoOptions ==
    [startPercent |-> <<>>, thicknessFactor |-> <<>>, slices |-> <<>>,
     shiftAmount |-> <<>>, dihedralAngle |-> <<>>]

\* the scene after wing.js has run on query string q: the foil, the controller
\* of the morph panel, and in cinematic mode the two controllers of animateFoil
\* with the clone made between them
SceneLoad(q, build) ==
    LET p     == ParamsFromURL(q)
        opt   == readSpanParamsFromURL(q)
        foil  == [NewGeometry(EmptyScene, "left", ExtrudeBuild(p)) EXCEPT !.inScene = {"left"}]
        main  == AddSpanMorphUI(foil, "left", build, p, SelectGenerator(p.naca), opt)
        left  == AddSpanMorphUI(main, "left", build, p, "naca4", opt)
        right == AddSpanMorphUI(CloneWing(left), "right", build, p, "naca4", opt)
    IN  IF StartMode(q) = "cinematic" THEN right ELSE main

InitScene ==
    /\ utilsBuild \in {"frontend", "part_004"}
    /\ coords = <<>>
    /\ genAlgo = "none"
    /\ genEntry = NoEntry
    /\ parsed = NoParse
    /\ geom = NoGeom
    /\ earlier = NoEarlier
    /\ rec = NoRec
    /\ deb = NoDeb
    /\ \E q \in UrlQueries :
         /\ Loaded(q, utilsBuild, Load(q, utilsBuild))
         /\ scene = SceneLoad(q, utilsBuild)

\* the click handler of the morph panel's apply button
SceneMorphApply ==
    /\ mode = "normal"
    /\ scene.allocated + 1 <= MaxGeoms
    /\ morph' = ReadMorphInputs(inputs)
    /\ meshAlgo' = MeshGenerator
    /\ meshCall' = MeshCall(Params, morph', meshAlgo')
    /\ scene' = applySpanMorphOn(scene, "left", meshCall')
    /\ UNCHANGED <<earlier, rec, deb, url, mode, cine, genCall, paramVars, genVars, inputs, geom,
                   utilsBuild, coordsFunc, extrudeAlgo>>

\* rebuildFoil: the foil is taken out of the scene, its geometry disposed, and a
\* new foil built and added
rebuildFoil(sc, p) ==
    LET removed == Dispose([sc EXCEPT !.inScene = @ \ {"left"}], "left")
    IN  [NewGeometry(removed, "left", ExtrudeBuild(p)) EXCEPT !.inScene = @ \cup {"left"}]

\* applyInputs with the NACA field edited and the other fields as the panel
\* shows them: rebuildFoil, setFoilMesh(foil), the query string
SceneApplyInputs(nacaText) ==
    /\ mode = "normal"
    /\ scene.allocated + 2 <= MaxGeoms
    /\ naca' = ReadNaca(nacaText)
    /\ chord' = Max(10, ParseOr(<<chord>>, chord))
    /\ points' = Max(10, Min(2000, ParseIntOr(<<points * Unit>>, points)))
    /\ depth' = Max(10, ParseOr(<<depth>>, depth))
    /\ scale' = Max(100, ParseOr(<<scale>>, scale))
    /\ UNCHANGED <<earlier, rec, deb, genVars, inputs, geom, utilsBuild, coordsFunc, mode, cine>>
    /\ genCall' = GenCall(Params')
    /\ extrudeAlgo' = SelectGenerator(naca')
    /\ morph' = ReadMorphInputs(inputs)
    /\ meshAlgo' = MeshGenerator'
    /\ meshCall' = MeshCall(Params', morph', meshAlgo')
    /\ url' = UrlAfterApply(url, Params', morph', utilsBuild)
    /\ scene' = applySpanMorphOn(rebuildFoil(scene, Params'), "left", meshCall')

\* a cinematic handler has set the closure variables to c: the calls on the two
\* controllers, then the query string
SceneCineApply(sc, c, q) ==
    /\ mode = "cinematic"
    /\ sc.allocated + 2 <= MaxGeoms
    /\ cine' = c
    /\ morph' = CineArgs(c)
    /\ meshAlgo' = ControllerGenerator(utilsBuild, c.params, c.coordsFunc)
    /\ meshCall' = MeshCall(c.params, CineArgs(c), meshAlgo')
    /\ url' = [q EXCEPT !.mode = <<"cinematic">>]
    /\ scene' = ApplyCalls(sc, utilsBuild, CineCalls(c))
    /\ UNCHANGED <<earlier, rec, deb, paramVars, genVars, mode, genCall, inputs, geom, utilsBuild,
                   coordsFunc, extrudeAlgo>>

SceneCrankedSlider(v) ==
    SceneCineApply(scene, [cine EXCEPT !.startPercent = v], [url EXCEPT !.start = <<v>>])

SceneTaperSlider(v) ==
    SceneCineApply(scene, [cine EXCEPT !.thicknessFactor = v], [url EXCEPT !.factor = <<v>>])

SceneShiftSlider(v) ==
    SceneCineApply(scene, [cine EXCEPT !.shiftAmount = v], [url EXCEPT !.shift = <<v>>])

SceneDihedralSlider(degrees) ==
    SceneCineApply(scene, [cine EXCEPT !.dihedralAngle = ToRadians(degrees)],
                   [url EXCEPT !.dihedral = <<degrees>>])

\* rebuildWithNewNACA: a new controller for each wing, each ending its
\* construction with a click, then the morph re-applied on both
SceneRebuildWithNewNACA(newNaca) ==
    LET raw == StripNonDigits(newNaca)
        nacaStr == IF Len(raw) = 5 \/ Len(raw) = 4 THEN raw ELSE <<2, 4, 1, 2>>
        func == IF Len(raw) = 5 THEN "naca5" ELSE "naca4"
        p == [cine.params EXCEPT !.naca = nacaStr]
        left == AddSpanMorphUI(scene, "left", utilsBuild, p, func, NoOptions)
        right == AddSpanMorphUI(left, "right", utilsBuild, p, func, NoOptions)
    IN  /\ scene.allocated + 4 <= MaxGeoms
        /\ SceneCineApply(right, [cine EXCEPT !.nacaCode = nacaStr, !.coordsFunc = func,
                                              !.params = p],
                          [url EXCEPT !.naca = <<nacaStr>>])

NextScene ==
    \/ SceneMorphApply
    \/ \E nt \in NacaTexts : SceneApplyInputs(nt)
    \/ \E v \in CrankedValues : SceneCrankedSlider(v)
    \/ \E v \in TaperValues : SceneTaperSlider(v)
    \/ \E v \in ShiftValues : SceneShiftSlider(v)
    \/ \E v \in DihedralValues : SceneDihedralSlider(v)
    \/ \E nt \in NacaTexts : SceneRebuildWithNewNACA(nt)

SpecScene == InitScene /\ [][NextScene]_vars

\* C23 (as claimed): a geometry is disposed only when it is being replaced on its
\* mesh: none is disposed while it is the geometry of another mesh that stays in
\* the scene, and none is disposed twice.
C23_DisposeOnlyReplaced ==
    /\ scene.sharedAtDispose = {}
    /\ scene.disposedTwice = {}

\* C23, the second half alone: no geometry object is disposed twice
C23_NeverDisposedTwice == scene.disposedTwice = {}

\* what the geometry held by the mesh of wing w was built from
BuildOf(w) == scene.geoms[scene.geomOf[w]].build

\* C30: in cinematic mode the two wings are always morphed symmetrically: after
\* initialisation and after every slider event or NACA rebuild, in any order, the
\* geometries of the left and of the right wing have been built by their
\* controllers with the same NACA code, the same chord, points, depth and scale
\* and the same startPercent, thicknessFactor, slices, shiftAmount and
\* dihedralAngle.
C30_WingsSymmetric ==
    mode = "cinematic" =>
        /\ BuildOf("left").kind = "morph"
        /\ BuildOf("right").kind = "morph"
        /\ BuildOf("left").call = BuildOf("right").call

\* both wings rebuilt for a 5-digit code and morphed by a slider since
C30_Witness ==
    /\ mode = "cinematic"
    /\ scene.allocated >= 12
    /\ BuildOf("left").call.naca = <<2, 3, 0, 1, 2>>
    /\ BuildOf("left").call = BuildOf("right").call
    /\ BuildOf("left").call = meshCall
    /\ scene.geomOf["left"] # scene.geomOf["right"]

-----------------------------------------------------------------------------
(* animateFoil with a recorder: the frame loop and recorder.stop() *)

\* the most frames of the loop that are followed
MaxFrames == 12

\* the duration handed to animateFoil; no number when the caller passes the
\* controls object in its place, as wing.js does with the six-parameter animateFoil
Durations == {NaN, <<1>>, <<2>>, <<3>>}

FpsValues == 1 .. 4

\* duration * fps
TotalFrames(duration, fps) == IF duration = NaN THEN NaN ELSE <<duration[1] * fps>>

\* frameCounter > duration * fps: false when the product is no number
Exceeds(frameCounter, total) == total # NaN /\ frameCounter > total[1]

\* the arguments a frame passes to applySpanMorph on both controllers: the
\* values smoothed towards random targets
FrameArgs ==
    [startPercent : {Unit \div 2, Unit}, thicknessFactor : {Unit}, slices : {40 * Unit},
     shiftAmount : {0}, dihedralAngle : {0}]

\* after recorder.start(), before the first frame
InitRecord ==
    /\ naca = <<2, 4, 1, 2>>
    /\ chord = Unit
    /\ points = 200
    /\ depth = DefaultDepth
    /\ scale = DefaultScale
    /\ coords = <<>>
    /\ genAlgo = "none"
    /\ genEntry = NoEntry
    /\ morph = [startPercent |-> Unit \div 2, thicknessFactor |-> Unit, slices |-> 40 * Unit,
                shiftAmount |-> 0, dihedralAngle |-> 0]
    /\ geom = NoGeom
    /\ inputs = NoInputs
    /\ NoPage
    /\ earlier = NoEarlier
    /\ scene = NoScene
    /\ deb = NoDeb
    /\ rec \in [frameCounter : {0}, duration : Durations, fps : FpsValues,
                recorder : {"recording"}, stops : {0}]
    /\ utilsBuild = "frontend"
    /\ coordsFunc = "naca4"
    /\ extrudeAlgo = "naca4"
    /\ meshAlgo = "naca4"

\* one run of animate: the next frame is requested first, the morph is applied
\* to both wings, then frameCounter++ and the test that stops the recorder;
\* stop() on a recorder that is inactive changes nothing
Frame ==
    /\ rec.frameCounter < MaxFrames
    /\ morph' \in FrameArgs
    /\ rec' = IF Exceeds(rec.frameCounter + 1, TotalFrames(rec.duration, rec.fps))
              THEN [rec EXCEPT !.frameCounter = @ + 1, !.stops = @ + 1,
                               !.recorder = "inactive"]
              ELSE [rec EXCEPT !.frameCounter = @ + 1]
    /\ UNCHANGED <<earlier, scene, deb, pageVars, paramVars, genVars, inputs, geom, uiVars>>

NextRecord == Frame

SpecRecord == InitRecord /\ [][NextRecord]_vars

\* C28 (as claimed): the recorder is stopped exactly once: recorder.stop() is
\* invoked on the first frame at which frameCounter exceeds duration*fps and on
\* no later frame, although the frame loop keeps running.
C28_StoppedOnce ==
    rec.stops = IF Exceeds(rec.frameCounter, TotalFrames(rec.duration, rec.fps))
                THEN 1 ELSE 0

\* what the loop does: one stop() call for every frame run past duration*fps
C28_StoppedEveryLateFrame ==
    rec.stops = IF Exceeds(rec.frameCounter, TotalFrames(rec.duration, rec.fps))
                THEN rec.frameCounter - TotalFrames(rec.duration, rec.fps)[1] ELSE 0

-----------------------------------------------------------------------------
(* The debounce timers of the main panel (wing.js) and of the morph panel
   (utils.js).  Time passes in ticks of 50 ms; a timer is the time left until
   its callback runs, and the callback runs when that time is up. *)

Panels == {"main", "morph"}

\* the delays of setTimeout, 250 ms and 200 ms, in ticks
Delay == [main |-> 5, morph |-> 4]

\* the most input events of one run
MaxEvents == 3

\* Schedule without clearTimeout: the pending timer stays
ScheduleNoClear(pending, delay) == pending \cup {delay}

\* clearTimeout(debounce); debounce = setTimeout(..., delay): the timers pending
\* after an input event
Schedule(pending, delay) == {delay}

\* the page in normal mode, no input event yet
InitDebounce ==
    /\ utilsBuild \in {"frontend", "part_004"}
    /\ coords = <<>>
    /\ genAlgo = "none"
    /\ genEntry = NoEntry
    /\ parsed = NoParse
    /\ geom = NoGeom
    /\ earlier = NoEarlier
    /\ scene = NoScene
    /\ rec = NoRec
    /\ Loaded(EmptyQuery, utilsBuild, Load(EmptyQuery, utilsBuild))
    /\ deb = [timers |-> [x \in Panels |-> {}],
              since |-> [x \in Panels |-> Delay[x]],
              events |-> 0,
              bursts |-> [x \in Panels |-> 0],
              applies |-> [x \in Panels |-> 0],
              nacaText |-> <<2, 4, 1, 2>>]

\* an input event: its effect on the timers of panel x
AfterEvent(x) ==
    [deb EXCEPT !.timers[x] = Schedule(@, Delay[x]),
                !.bursts[x] = IF deb.since[x] >= Delay[x] THEN @ + 1 ELSE @,
                !.since[x] = 0,
                !.events = @ + 1]

\* an input event on a field of the morph panel
MorphInputEvent(texts) ==
    /\ deb.events < MaxEvents
    /\ 0 \notin deb.timers["morph"]
    /\ inputs' = texts
    /\ deb' = AfterEvent("morph")
    /\ UNCHANGED <<earlier, scene, rec, pageVars, paramVars, genVars, morph, geom, uiVars>>

\* an input event on the NACA field of the main panel
MainInputEvent(text) ==
    /\ deb.events < MaxEvents
    /\ 0 \notin deb.timers["main"]
    /\ deb' = [AfterEvent("main") EXCEPT !.nacaText = text]
    /\ UNCHANGED <<earlier, scene, rec, pageVars, paramVars, genVars, inputs, morph, geom,
                   uiVars>>

\* 50 ms pass with no callback due
Tick ==
    /\ \A x \in Panels : 0 \notin deb.timers[x]
    /\ \E x \in Panels : deb.timers[x] # {} \/ deb.since[x] < Delay[x]
    /\ deb' = [deb EXCEPT !.timers = [x \in Panels |-> {r - 1 : r \in deb.timers[x]}],
                          !.since = [x \in Panels |-> Min(Delay[x], deb.since[x] + 1)]]
    /\ UNCHANGED <<earlier, scene, rec, pageVars, paramVars, genVars, inputs, morph, geom,
                   uiVars>>

\* the timer of the morph panel runs: applyBtn.click()
MorphTimerFires ==
    /\ 0 \in deb.timers["morph"]
    /\ deb' = [deb EXCEPT !.timers["morph"] = @ \ {0}, !.applies["morph"] = @ + 1]
    /\ morph' = ReadMorphInputs(inputs)
    /\ meshAlgo' = MeshGenerator
    /\ meshCall' = MeshCall(Params, morph', meshAlgo')
    /\ UNCHANGED <<earlier, scene, rec, url, mode, cine, genCall, paramVars, genVars, inputs,
                   geom, utilsBuild, coordsFunc, extrudeAlgo>>

\* the timer of the main panel runs: applyInputs()
MainTimerFires ==
    /\ 0 \in deb.timers["main"]
    /\ deb' = [deb EXCEPT !.timers["main"] = @ \ {0}, !.applies["main"] = @ + 1]
    /\ naca' = ReadNaca(deb.nacaText)
    /\ chord' = Max(10, ParseOr(<<chord>>, chord))
    /\ points' = Max(10, Min(2000, ParseIntOr(<<points * Unit>>, points)))
    /\ depth' = Max(10, ParseOr(<<depth>>, depth))
    /\ scale' = Max(100, ParseOr(<<scale>>, scale))
    /\ UNCHANGED <<earlier, scene, rec, genVars, inputs, geom, utilsBuild, coordsFunc, mode,
                   cine>>
    /\ genCall' = GenCall(Params')
    /\ extrudeAlgo' = SelectGenerator(naca')
    /\ morph' = ReadMorphInputs(inputs)
    /\ meshAlgo' = MeshGenerator'
    /\ meshCall' = MeshCall(Params', morph', meshAlgo')
    /\ url' = UrlAfterApply(url, Params', morph', utilsBuild)

NextDebounce ==
    \/ \E texts \in MorphTexts : MorphInputEvent(texts)
    \/ \E text \in NacaTexts : MainInputEvent(text)
    \/ Tick
    \/ MorphTimerFires
    \/ MainTimerFires

SpecDebounce == InitDebounce /\ [][NextDebounce]_vars

\* time passes and a callback that is due runs
SpecDebounceLive ==
    /\ SpecDebounce
    /\ WF_vars(Tick)
    /\ WF_vars(MorphTimerFires)
    /\ WF_vars(MainTimerFires)

\* at most one timer is pending on a panel, and the applies of a panel are its
\* bursts of events, less the burst whose timer is still pending
OneApplyPerBurst ==
    \A x \in Panels :
        /\ Cardinality(deb.timers[x]) <= 1
        /\ deb.applies[x] + Cardinality(deb.timers[x]) = deb.bursts[x]

\* an event leaves one timer with the full delay; a timer goes away by an apply
\* only; an apply comes a full delay after the last event and uses the values the inputs hold at that moment
EventAndApplySteps ==
    [][\A x \in Panels :
          /\ deb'.since[x] = 0 /\ deb'.events # deb.events => deb'.timers[x] = {Delay[x]}
          /\ deb.timers[x] # {} /\ deb'.timers[x] = {} => deb'.applies[x] = deb.applies[x] + 1
          /\ deb'.applies[x] # deb.applies[x] =>
                /\ deb.since[x] = Delay[x]
                /\ deb'.timers[x] = {}
                /\ morph' = ReadMorphInputs(inputs)
                /\ x = "main" => naca' = ReadNaca(deb.nacaText)]_vars

\* every input event is followed by an apply: the timer an event leaves pending
\* goes away, which only the apply of its callback does
EventLeadsToApply ==
    \A x \in Panels : (deb.timers[x] # {}) ~> (deb.timers[x] = {})

\* C29: panel input events are debounced: each event cancels the pending timer
\* and starts a new one (250 ms main panel, 200 ms morph panel), so a burst of
\* events with gaps shorter than the delay causes exactly one apply, executed
\* after the last event with the input values present at that moment; and every
\* input event is eventually followed by an apply.
C29_Debounced ==
    /\ []OneApplyPerBurst
    /\ EventAndApplySteps
    /\ EventLeadsToApply

\* a burst of two events on the morph panel, then its one apply, with the values
\* of the second event
C29_Witness ==
    /\ deb.events >= 2
    /\ deb.bursts["morph"] = 1
    /\ deb.applies["morph"] = 1
    /\ deb.timers["morph"] = {}
    /\ morph = ReadMorphInputs(inputs)
    /\ morph.slices = 2 * Unit

====
